---- MODULE Spec2Model ----
(***************************************************************************)
(* Request pipeline of the Task Manager REST API: Express middleware       *)
(* chains (rate limiter, auth gate, validators, controllers, error         *)
(* handler) in front of the Supabase Data Store and Identity Provider.     *)
(*                                                                         *)
(* JavaScript strings are tuples of one-character strings, so that trim,   *)
(* split, startsWith, length, Number() and the regular expressions are     *)
(* computed character by character as the code computes them.              *)
(***************************************************************************)
EXTENDS Integers, Sequences, FiniteSets, Bags, TLC

\* ------------------------------------------------------------------------
\* JavaScript values
\* ------------------------------------------------------------------------
Undefined == [t |-> "undefined"]
Null == [t |-> "null"]
Str(s) == [t |-> "string", s |-> s]
Num(n) == [t |-> "number", n |-> n]

NumNaN == [t |-> "nan"]

\* ToBoolean: undefined, null, 0, NaN and "" are falsy
Truthy(v) ==
    CASE v.t = "undefined" -> FALSE
      [] v.t = "null" -> FALSE
      [] v.t = "number" -> v.n # 0
      [] v.t = "nan" -> FALSE
      [] v.t = "string" -> Len(v.s) > 0
      [] OTHER -> TRUE

IsString(v) == v.t = "string"

\* property read on a JSON object: a missing key reads as undefined
Get(obj, k) == IF k \in DOMAIN obj THEN obj[k] ELSE Undefined

\* Object.keys(obj).length
KeyCount(obj) == Cardinality(DOMAIN obj)

\* ------------------------------------------------------------------------
\* String functions
\* ------------------------------------------------------------------------
WhiteSpace == {" ", "\t"}
Digits == {"0", "1", "2", "3", "4", "5", "6", "7", "8", "9"}
HexLower == Digits \cup {"a", "b", "c", "d", "e", "f"}
HexUpper == {"A", "B", "C", "D", "E", "F"}

Rep(c, n) == [i \in 1..n |-> c]

DigitVal(c) ==
    CASE c = "0" -> 0 [] c = "1" -> 1 [] c = "2" -> 2 [] c = "3" -> 3
      [] c = "4" -> 4 [] c = "5" -> 5 [] c = "6" -> 6 [] c = "7" -> 7
      [] c = "8" -> 8 [] c = "9" -> 9

RECURSIVE TrimStart(_)
TrimStart(s) ==
    IF s # <<>> /\ Head(s) \in WhiteSpace THEN TrimStart(Tail(s)) ELSE s

RECURSIVE TrimEnd(_)
TrimEnd(s) ==
    IF s # <<>> /\ s[Len(s)] \in WhiteSpace
    THEN TrimEnd(SubSeq(s, 1, Len(s) - 1))
    ELSE s

\* String.prototype.trim
Trim(s) == TrimEnd(TrimStart(s))

\* String.prototype.startsWith
StartsWith(s, p) == Len(s) >= Len(p) /\ SubSeq(s, 1, Len(p)) = p

\* String.prototype.split with a one-character separator
RECURSIVE SplitAcc(_, _, _)
SplitAcc(s, sep, cur) ==
    IF s = <<>> THEN <<cur>>
    ELSE IF Head(s) = sep
         THEN <<cur>> \o SplitAcc(Tail(s), sep, <<>>)
         ELSE SplitAcc(Tail(s), sep, Append(cur, Head(s)))

Split(s, sep) == SplitAcc(s, sep, <<>>)

\* parts[i] of a JavaScript array: undefined past the end
At(parts, i) == IF i <= Len(parts) THEN Str(parts[i]) ELSE Undefined

RECURSIVE DigitsValue(_, _)
DigitsValue(s, acc) ==
    IF s = <<>> THEN acc ELSE DigitsValue(Tail(s), acc * 10 + DigitVal(Head(s)))

AllIn(s, S) == \A i \in 1..Len(s) : s[i] \in S

\* 10^n
RECURSIVE Pow10(_)
Pow10(n) == IF n = 0 THEN 1 ELSE 10 * Pow10(n - 1)

NaN == [nan |-> TRUE, num |-> 0, den |-> 1]
Rat(n, d) == [nan |-> FALSE, num |-> n, den |-> d]

\* Number(string) for decimal literals: surrounding white space is dropped,
\* the empty string is 0, an optional sign, digits with an optional fraction
\* and an optional exponent give the value num/den, anything else is NaN.
UnsignedNumber(u) ==
    LET eparts == Split([i \in 1..Len(u) |-> IF u[i] = "E" THEN "e" ELSE u[i]], "e")
        parts == Split(eparts[1], ".")
        mantissa ==
            IF Len(parts) = 1 /\ parts[1] # <<>> /\ AllIn(parts[1], Digits)
            THEN Rat(DigitsValue(parts[1], 0), 1)
            ELSE IF Len(parts) = 2 /\ parts[1] \o parts[2] # <<>>
                    /\ AllIn(parts[1], Digits) /\ AllIn(parts[2], Digits)
                 THEN Rat(DigitsValue(parts[1] \o parts[2], 0), Pow10(Len(parts[2])))
                 ELSE NaN
        ex == IF Len(eparts) = 2 THEN eparts[2] ELSE <<>>
        exDigits == IF ex # <<>> /\ Head(ex) \in {"-", "+"} THEN Tail(ex) ELSE ex
        exValue == DigitsValue(exDigits, 0)
    IN  IF Len(eparts) = 1 THEN mantissa
        ELSE IF Len(eparts) > 2 \/ mantissa.nan \/ exDigits = <<>>
                \/ ~AllIn(exDigits, Digits)
        THEN NaN
        ELSE IF Head(ex) = "-"
        THEN Rat(mantissa.num, mantissa.den * Pow10(exValue))
        ELSE Rat(mantissa.num * Pow10(exValue), mantissa.den)

ToNumber(s) ==
    LET u == Trim(s)
    IN  IF u = <<>> THEN Rat(0, 1)
        ELSE IF Head(u) = "-"
             THEN LET r == UnsignedNumber(Tail(u))
                  IN  IF r.nan THEN NaN ELSE Rat(0 - r.num, r.den)
             ELSE IF Head(u) = "+" THEN UnsignedNumber(Tail(u))
                  ELSE UnsignedNumber(u)

IsNaN(r) == r.nan

\* the longest prefix of s made of digits
RECURSIVE DigitPrefix(_)
DigitPrefix(s) ==
    IF s # <<>> /\ Head(s) \in Digits THEN <<Head(s)>> \o DigitPrefix(Tail(s)) ELSE <<>>

\* parseInt(string) in base 10: leading white space is skipped, then an
\* optional sign and the longest run of digits; NaN when there is no digit
ParseInt(s) ==
    LET u == TrimStart(s)
        neg == u # <<>> /\ Head(u) = "-"
        body == IF u # <<>> /\ Head(u) \in {"-", "+"} THEN Tail(u) ELSE u
        ds == DigitPrefix(body)
    IN  IF ds = <<>> THEN NumNaN
        ELSE Num(IF neg THEN 0 - DigitsValue(ds, 0) ELSE DigitsValue(ds, 0))
\* r < k and r > k for an integer k
NumLess(r, k) == ~r.nan /\ r.num < k * r.den
NumGreater(r, k) == ~r.nan /\ r.num > k * r.den

\* ------------------------------------------------------------------------
\* String literals of the source, as character tuples
\* ------------------------------------------------------------------------
sLow == <<"l", "o", "w">>
sMedium == <<"m", "e", "d", "i", "u", "m">>
sHigh == <<"h", "i", "g", "h">>
sPending == <<"p", "e", "n", "d", "i", "n", "g">>
sInProcess == <<"i", "n", "-", "p", "r", "o", "c", "e", "s", "s">>
sInProgress == <<"i", "n", "-", "p", "r", "o", "g", "r", "e", "s", "s">>
sCompleted == <<"c", "o", "m", "p", "l", "e", "t", "e", "d">>
sAsc == <<"a", "s", "c">>
sDesc == <<"d", "e", "s", "c">>
sBearer == <<"B", "e", "a", "r", "e", "r">>

VALID_PRIORITIES == <<sLow, sMedium, sHigh>>
VALID_STATUSES == <<sPending, sInProcess, sCompleted>>
VALID_ORDERS == <<sAsc, sDesc>>

\* Array.prototype.includes: strict equality with one of the elements
Includes(arr, v) == IsString(v) /\ \E i \in 1..Len(arr) : arr[i] = v.s

\* the pattern with \w in place of the hexadecimal classes
uuidRegex_AnyWord(s) ==
    /\ Len(s) = 36
    /\ \A i \in 1..Len(s) : IF i \in {9, 14, 19, 24} THEN s[i] = "-" ELSE s[i] # "-"

\* /^[0-9a-f]{8}-[0-9a-f]{4}-[0-9a-f]{4}-[0-9a-f]{4}-[0-9a-f]{12}$/i
uuidRegex(s) ==
    /\ Len(s) = 36
    /\ \A i \in 1..Len(s) :
          IF i \in {9, 14, 19, 24} THEN s[i] = "-"
          ELSE s[i] \in HexLower \cup HexUpper

\* /^[^\s@]+@[^\s@]+\.[^\s@]+$/
emailRegex(s) ==
    \E i \in 1..Len(s) : \E j \in 1..Len(s) :
        /\ s[i] = "@" /\ s[j] = "."
        /\ 1 < i /\ i + 1 < j /\ j < Len(s)
        /\ \A k \in 1..Len(s) : k # i => s[k] \notin WhiteSpace \cup {"@"}

\* isNaN(new Date(v).getTime()) is false: a number is a time value, a string
\* of the form YYYY-MM-DD with a month 01..12 and a day 01..31 parses, and a
\* string without that shape does not (the inputs of the model are of these
\* kinds only).
DateParses(v) ==
    CASE v.t = "number" -> TRUE
      [] v.t = "string" ->
            /\ Len(v.s) = 10
            /\ \A i \in 1..10 : IF i \in {5, 8} THEN v.s[i] = "-" ELSE v.s[i] \in Digits
            /\ DigitsValue(SubSeq(v.s, 6, 7), 0) \in 1..12
            /\ DigitsValue(SubSeq(v.s, 9, 10), 0) \in 1..31
      [] OTHER -> FALSE

\* ------------------------------------------------------------------------
\* Outcome of a middleware: next(), or res.status(s).json({message, error})
\* ------------------------------------------------------------------------
Pass == [next |-> TRUE, status |-> 0, message |-> "", error |-> <<>>]
Fail(st, msg, errs) == [next |-> FALSE, status |-> st, message |-> msg, error |-> errs]

\* ------------------------------------------------------------------------
\* Task validators (middleware/validateTask.ts)
\* ------------------------------------------------------------------------
\* validateCreateTask without the trim() of the title check
validateCreateTask_NoTrim(body) ==
    LET title == Get(body, "title")
        priority == Get(body, "priority")
        due_date == Get(body, "due_date")
    IN  IF ~Truthy(title) \/ ~IsString(title)
        THEN Fail(400, "Validation failed",
                  <<"Title is required and must be an non-empty string">>)
        ELSE IF Len(title.s) > 255
        THEN Fail(400, "Validation Failed", <<"Title must be 255 character or less">>)
        ELSE IF Truthy(priority) /\ ~Includes(VALID_PRIORITIES, priority)
        THEN Fail(400, "Validation Failed",
                  <<"Priority must be one of 'low', 'medium', or 'high'">>)
        ELSE IF Truthy(due_date) /\ ~DateParses(due_date)
        THEN Fail(400, "Validation failed",
                  <<"Invalid date format for due_date Use iso format YYYY-MM-DD">>)
        ELSE Pass

validateCreateTask(body) ==
    LET title == Get(body, "title")
        priority == Get(body, "priority")
        due_date == Get(body, "due_date")
    IN  IF ~Truthy(title) \/ ~IsString(title) \/ Trim(title.s) = <<>>
        THEN Fail(400, "Validation failed",
                  <<"Title is required and must be an non-empty string">>)
        ELSE IF Len(title.s) > 255
        THEN Fail(400, "Validation Failed", <<"Title must be 255 character or less">>)
        ELSE IF Truthy(priority) /\ ~Includes(VALID_PRIORITIES, priority)
        THEN Fail(400, "Validation Failed",
                  <<"Priority must be one of 'low', 'medium', or 'high'">>)
        ELSE IF Truthy(due_date) /\ ~DateParses(due_date)
        THEN Fail(400, "Validation failed",
                  <<"Invalid date format for due_date Use iso format YYYY-MM-DD">>)
        ELSE Pass

validateUpdateTask(body) ==
    LET title == Get(body, "title")
        status == Get(body, "status")
        priority == Get(body, "priority")
        due_date == Get(body, "due_date")
    IN  IF KeyCount(body) = 0
        THEN Fail(400, "validation failed", <<"at least one field is required for update">>)
        ELSE IF title.t # "undefined" /\ (~IsString(title) \/ Trim(title.s) = <<>>)
        THEN Fail(400, "validation failed", <<"title must be a non-empty string">>)
        ELSE IF title.t # "undefined" /\ Len(title.s) > 255
        THEN Fail(400, "validation failed", <<"title must be 255 characters or less">>)
        ELSE IF Truthy(status) /\ ~Includes(VALID_STATUSES, status)
        THEN Fail(400, "validation failed",
                  <<"status must be any one of pending, in-process, completed">>)
        ELSE IF Truthy(priority) /\ ~Includes(VALID_PRIORITIES, priority)
        THEN Fail(400, "Validation failed", <<"Priority must be one of: low, medium, high">>)
        ELSE IF Truthy(due_date) /\ ~DateParses(due_date)
        THEN Fail(400, "Validation failed", <<"Invalid date format for due_date">>)
        ELSE Pass

validateTaskId(id) ==
    IF ~uuidRegex(id)
    THEN Fail(400, "Validation failed", <<"invalid task ID format. Must be a valid UUID">>)
    ELSE Pass

\* validateQueryParams without the upper bound of limit
validateQueryParams_NoUpper(query) ==
    LET status == Get(query, "status")
        priority == Get(query, "priority")
        limit == Get(query, "limit")
        offset == Get(query, "offset")
        order == Get(query, "order")
    IN  IF Truthy(status) /\ ~Includes(VALID_STATUSES, status)
        THEN Fail(400, "validation failed",
                  <<"invalid prioirty must be one of pending,in-process,completed">>)
        ELSE IF Truthy(priority) /\ ~Includes(VALID_PRIORITIES, priority)
        THEN Fail(400, "validation failed", <<"invalid priority must be high medium low">>)
        ELSE IF Truthy(limit) /\ (\/ IsNaN(ToNumber(limit.s))
                                  \/ NumLess(ToNumber(limit.s), 1))
        THEN Fail(400, "Validation failed", <<"Limit must be a number between 1 and 100">>)
        ELSE IF Truthy(offset) /\ (\/ IsNaN(ToNumber(offset.s))
                                   \/ NumLess(ToNumber(offset.s), 0))
        THEN Fail(400, "Validation failed", <<"Offset must be a non-negative number">>)
        ELSE IF Truthy(order) /\ ~Includes(VALID_ORDERS, order)
        THEN Fail(400, "Validation failed", <<"Order must be either \"asc\" or \"desc\"">>)
        ELSE Pass

\* Number(limit) and Number(offset) of the query strings
validateQueryParams(query) ==
    LET status == Get(query, "status")
        priority == Get(query, "priority")
        limit == Get(query, "limit")
        offset == Get(query, "offset")
        order == Get(query, "order")
    IN  IF Truthy(status) /\ ~Includes(VALID_STATUSES, status)
        THEN Fail(400, "validation failed",
                  <<"invalid prioirty must be one of pending,in-process,completed">>)
        ELSE IF Truthy(priority) /\ ~Includes(VALID_PRIORITIES, priority)
        THEN Fail(400, "validation failed", <<"invalid priority must be high medium low">>)
        ELSE IF Truthy(limit) /\ (\/ IsNaN(ToNumber(limit.s))
                                  \/ NumLess(ToNumber(limit.s), 1)
                                  \/ NumGreater(ToNumber(limit.s), 100))
        THEN Fail(400, "Validation failed", <<"Limit must be a number between 1 and 100">>)
        ELSE IF Truthy(offset) /\ (\/ IsNaN(ToNumber(offset.s))
                                   \/ NumLess(ToNumber(offset.s), 0))
        THEN Fail(400, "Validation failed", <<"Offset must be a non-negative number">>)
        ELSE IF Truthy(order) /\ ~Includes(VALID_ORDERS, order)
        THEN Fail(400, "Validation failed", <<"Order must be either \"asc\" or \"desc\"">>)
        ELSE Pass

\* ------------------------------------------------------------------------
\* Auth validators (middleware/validateAuth.ts)
\* ------------------------------------------------------------------------
SignupEmailErrors(email) ==
    IF ~Truthy(email) THEN <<"Email is required">>
    ELSE IF ~IsString(email) THEN <<"Email must be a string">>
    ELSE IF ~emailRegex(email.s) THEN <<"Invalid email format">>
    ELSE <<>>

SignupPasswordErrors(password) ==
    IF ~Truthy(password) THEN <<"Password is required">>
    ELSE IF ~IsString(password) THEN <<"Password must be string">>
    ELSE IF Len(password.s) < 6 THEN <<"Password must be at least 6 characters">>
    ELSE IF Len(password.s) > 72 THEN <<"Password must not excced 72 characters">>
    ELSE <<>>

SignupNameErrors(name) ==
    IF name.t # "undefined" /\ ~IsString(name) THEN <<"Name must be a string">> ELSE <<>>

validateSignup(body) ==
    LET errors == SignupEmailErrors(Get(body, "email"))
                  \o SignupPasswordErrors(Get(body, "password"))
                  \o SignupNameErrors(Get(body, "name"))
    IN  IF Len(errors) > 0 THEN Fail(400, "Validation failed", errors) ELSE Pass

LoginEmailErrors(email) ==
    IF ~Truthy(email) THEN <<"Email is required">>
    ELSE IF ~IsString(email) THEN <<"Email must be a string">>
    ELSE <<>>

LoginPasswordErrors(password) ==
    IF ~Truthy(password) THEN <<"Password is required">>
    ELSE IF ~IsString(password) THEN <<"Password must be a string">>
    ELSE <<>>

validateLogin(body) ==
    LET errors == LoginEmailErrors(Get(body, "email"))
                  \o LoginPasswordErrors(Get(body, "password"))
    IN  IF Len(errors) > 0 THEN Fail(400, " Validation failed", errors) ELSE Pass

\* emailRegex.test(email) converts a non-string to a string first; the
\* non-string values of the model (numbers, null) have no "@" in that form
validateForgotPassword(body) ==
    LET email == Get(body, "email")
    IN  IF ~Truthy(email)
        THEN Fail(400, "Validation failed", <<"Email is required">>)
        ELSE IF ~(IsString(email) /\ emailRegex(email.s))
        THEN Fail(400, "Validation failed", <<"Invalid email format">>)
        ELSE Pass

ResetPasswordErrors(password) ==
    IF ~Truthy(password) THEN <<"Password is required">>
    ELSE IF ~IsString(password) THEN <<"Password must be a string">>
    ELSE IF Len(password.s) < 6 THEN <<"Password must be at least 6 characters">>
    ELSE IF Len(password.s) > 72 THEN <<"Password must not exceed 72 characters">>
    ELSE <<>>

validateResetPassword(body) ==
    LET errors == ResetPasswordErrors(Get(body, "password"))
    IN  IF Len(errors) > 0 THEN Fail(400, "Validation failed", errors) ELSE Pass

\* ------------------------------------------------------------------------
\* Routes and their middleware chains (routes/taskRoutes.ts, authRoutes.ts)
\* ------------------------------------------------------------------------
TaskRoutes ==
    {"GET /tasks/stats", "GET /tasks", "GET /tasks/:id",
     "POST /tasks", "PUT /tasks/:id", "DELETE /tasks/:id"}

AuthRoutes ==
    {"POST /auth/signup", "POST /auth/login", "POST /auth/forgot-password",
     "POST /auth/refresh", "POST /auth/resend-verification",
     "POST /auth/logout", "GET /auth/me", "POST /auth/reset-password"}

Routes == TaskRoutes \cup AuthRoutes

\* the two other gates authMiddleware.ts exports, mounted in front of
\* getCurrentUser the way authenticate is
GatedRoutes ==
    {"authenticate, requireVerifiedEmail", "optionalAuth, requireVerifiedEmail",
     "optionalAuth"}

Chain(route) ==
    CASE route = "GET /tasks/stats" -> <<"getTaskStats">>
      [] route = "GET /tasks" -> <<"validateQueryParams", "getAllTasks">>
      [] route = "GET /tasks/:id" -> <<"validateTaskId", "getTaskById">>
      [] route = "POST /tasks" ->
            <<"authenticate", "createTaskLimiter", "validateCreateTask", "createTask">>
      [] route = "PUT /tasks/:id" ->
            <<"authenticate", "validateTaskId", "validateUpdateTask", "updateTask">>
      [] route = "DELETE /tasks/:id" -> <<"authenticate", "validateTaskId", "deleteTask">>
      [] route = "POST /auth/signup" -> <<"signupLimiter", "validateSignup", "signup">>
      [] route = "POST /auth/login" -> <<"authLimiter", "validateLogin", "login">>
      [] route = "POST /auth/forgot-password" ->
            <<"passwordResetLimiter", "validateForgotPassword", "forgotPassword">>
      [] route = "POST /auth/refresh" -> <<"refreshToken">>
      [] route = "POST /auth/resend-verification" -> <<"resendVerification">>
      [] route = "POST /auth/logout" -> <<"authenticate", "logout">>
      [] route = "GET /auth/me" -> <<"authenticate", "getCurrentUser">>
      [] route = "POST /auth/reset-password" ->
            <<"authenticate", "validateResetPassword", "resetPassword">>
      [] route = "authenticate, requireVerifiedEmail" ->
            <<"authenticate", "requireVerifiedEmail", "getCurrentUser">>
      [] route = "optionalAuth, requireVerifiedEmail" ->
            <<"optionalAuth", "requireVerifiedEmail", "getCurrentUser">>
      [] route = "optionalAuth" -> <<"optionalAuth", "getCurrentUser">>

\* ------------------------------------------------------------------------
\* Rate limiter tiers (rateLimit({windowMs, max}) in config)
\* ------------------------------------------------------------------------
Limiters == {"authLimiter", "signupLimiter", "passwordResetLimiter", "createTaskLimiter"}

\* windows written in seconds where the option is in milliseconds
windowMs_Seconds(limiter) ==
    CASE limiter = "authLimiter" -> 15 * 60
      [] limiter = "signupLimiter" -> 60 * 60
      [] limiter = "passwordResetLimiter" -> 60 * 60
      [] limiter = "createTaskLimiter" -> 60 * 60

windowMs(limiter) ==
    CASE limiter = "authLimiter" -> 15 * 60 * 1000
      [] limiter = "signupLimiter" -> 60 * 60 * 1000
      [] limiter = "passwordResetLimiter" -> 60 * 60 * 1000
      [] limiter = "createTaskLimiter" -> 60 * 60 * 1000

\* every tier given one request more than configured
max_OneMore(limiter) ==
    CASE limiter = "authLimiter" -> 6
      [] limiter = "signupLimiter" -> 4
      [] limiter = "passwordResetLimiter" -> 4
      [] limiter = "createTaskLimiter" -> 31

max(limiter) ==
    CASE limiter = "authLimiter" -> 5
      [] limiter = "signupLimiter" -> 3
      [] limiter = "passwordResetLimiter" -> 3
      [] limiter = "createTaskLimiter" -> 30

\* res.status(429).json(...) of each limiter: the handler option where one
\* is given, the message option otherwise
limiterMessage(limiter) ==
    CASE limiter = "authLimiter" -> "Too many authentication atttempts"
      [] limiter = "signupLimiter" -> "Too many signup attempts"
      [] limiter = "passwordResetLimiter" -> "Too many password reset requests"
      [] limiter = "createTaskLimiter" -> "Task creation limit reached."

limiterError(limiter) ==
    CASE limiter = "authLimiter" -> "Please wait 15 minutes before trying again"
      [] limiter = "signupLimiter" -> "Please wait 1 hour before creating another account"
      [] limiter = "passwordResetLimiter" -> "Please check your email or wait 1 hour"
      [] limiter = "createTaskLimiter" -> "You can create up to 30 tasks per hour"

\* ------------------------------------------------------------------------
\* State
\* ------------------------------------------------------------------------
VARIABLES
    req,          \* the request being handled: route, ip, headers, params, body, query
    pos,          \* index into Chain(req.route) of the handler that has control
    phase,        \* "idle" | "ready" | "awaiting" | "error" | "done"
    res,          \* the response object: number of sends, status and JSON body
    user,         \* req.user
    accessToken,  \* req.accessToken
    pending,      \* the remote call the handler is awaiting
    calls,        \* remote calls issued while handling the request, in order
    replies,      \* the answers to those calls, in order
    ran,          \* handlers entered while handling the request, in order
    err,          \* the error handed to next(err)
    buckets,      \* rate limiter store: (limiter, key) -> hits and reset time
    now,          \* clock, in milliseconds
    nodeEnv,      \* process.env.NODE_ENV
    served,       \* number of requests received so far
    parked,       \* requests in flight that do not have control: a bag of contexts
    clientSession \* access token of the session held by the shared provider client

vars == <<req, pos, phase, res, user, accessToken, pending, calls, replies, ran, err,
          buckets, now, nodeEnv, served, parked, clientSession>>

NoCall == [svc |-> "none"]
NoRes == [sent |-> 0, status |-> 0, message |-> "", error |-> <<>>,
          retryAfter |-> 0, data |-> Null]
NoReq == [route |-> "none", ip |-> "none", authorization |-> Undefined,
          id |-> <<>>, body |-> <<>>, query |-> <<>>]

Stage ==
    IF req.route \in Routes \cup GatedRoutes /\ pos \in 1..Len(Chain(req.route))
    THEN Chain(req.route)[pos]
    ELSE "none"

\* the handler takes control / resumes after its await
Enter(name) ==
    phase = "ready" /\ Stage = name /\ ran' = Append(ran, name) /\ UNCHANGED replies
Resume(name) == phase = "awaiting" /\ Stage = name /\ UNCHANGED ran

\* res.status(o.status).json({message, error, data}); return
SendData(o, d, retry) ==
    /\ res' = [sent |-> res.sent + 1, status |-> o.status, message |-> o.message,
               error |-> o.error, retryAfter |-> retry, data |-> d]
    /\ phase' = "done"
    /\ pending' = NoCall
    /\ UNCHANGED <<pos, user, accessToken, err, calls>>

\* a response that is not followed by return: control passes on as well
Send_NoReturn(o) ==
    /\ res' = [sent |-> res.sent + 1, status |-> o.status, message |-> o.message,
               error |-> o.error, retryAfter |-> 0, data |-> Null]
    /\ pos' = pos + 1
    /\ phase' = "ready"
    /\ pending' = NoCall
    /\ UNCHANGED <<user, accessToken, err, calls>>

Send(o) == SendData(o, Null, 0)

\* next()
Continue ==
    /\ pos' = pos + 1
    /\ phase' = "ready"
    /\ pending' = NoCall
    /\ UNCHANGED <<res, user, accessToken, err, calls>>

\* a synchronous middleware: next() or one response
Apply(o) == IF o.next THEN Continue ELSE Send(o)

\* a rejected promise that nothing catches: the request is left unanswered
Throw_Unhandled(e) ==
    /\ err' = e
    /\ phase' = "lost"
    /\ pending' = NoCall
    /\ UNCHANGED <<pos, res, user, accessToken, calls>>

\* next(error), or a rejected promise caught by asyncHandler
Throw(e) ==
    /\ err' = e
    /\ phase' = "error"
    /\ pending' = NoCall
    /\ UNCHANGED <<pos, res, user, accessToken, calls>>

\* await of a remote call
Await(c) ==
    /\ pending' = c
    /\ calls' = Append(calls, c)
    /\ phase' = "awaiting"
    /\ UNCHANGED <<pos, res, user, accessToken, err>>

\* the login tier counting failed attempts only
skipSuccessfulRequests_Auth(limiter) == limiter = "authLimiter"

\* rateLimit({..., skipSuccessfulRequests: false}); neither option is set on
\* the other tiers
skipSuccessfulRequests(limiter) == FALSE
skipFailedRequests(limiter) == FALSE

\* when the response is sent, the request's hit is taken back on a tier that
\* skips responses of its kind (successful: status below 400)
afterResponse ==
    LET skipped(limiter) ==
            \/ skipSuccessfulRequests(limiter) /\ res'.status < 400
            \/ skipFailedRequests(limiter) /\ res'.status >= 400
        passed == {limiter \in Limiters : (\E i \in 1..Len(ran) : ran[i] = limiter)
                                          /\ skipped(limiter)}
    IN  IF res'.sent > res.sent
        THEN [k \in DOMAIN buckets |->
                IF k[1] \in passed /\ k[2] = req.ip /\ buckets[k].hits > 0
                THEN [buckets[k] EXCEPT !.hits = @ - 1] ELSE buckets[k]]
        ELSE buckets

Shared ==
    /\ UNCHANGED <<req, now, nodeEnv, served, parked>>
    /\ buckets' = afterResponse
Frame == Shared /\ UNCHANGED clientSession

\* ------------------------------------------------------------------------
\* Validator middleware steps
\* ------------------------------------------------------------------------
ValidateCreateTask ==
    /\ Enter("validateCreateTask")
    /\ Apply(validateCreateTask(req.body))
    /\ Frame

ValidateUpdateTask ==
    /\ Enter("validateUpdateTask")
    /\ Apply(validateUpdateTask(req.body))
    /\ Frame

ValidateTaskId ==
    /\ Enter("validateTaskId")
    /\ Apply(validateTaskId(req.id))
    /\ Frame

ValidateQueryParams ==
    /\ Enter("validateQueryParams")
    /\ Apply(validateQueryParams(req.query))
    /\ Frame

ValidateSignup ==
    /\ Enter("validateSignup")
    /\ Apply(validateSignup(req.body))
    /\ Frame

ValidateLogin ==
    /\ Enter("validateLogin")
    /\ Apply(validateLogin(req.body))
    /\ Frame

ValidateForgotPassword ==
    /\ Enter("validateForgotPassword")
    /\ Apply(validateForgotPassword(req.body))
    /\ Frame

ValidateResetPassword ==
    /\ Enter("validateResetPassword")
    /\ Apply(validateResetPassword(req.body))
    /\ Frame

\* ------------------------------------------------------------------------
\* Auth gate (middleware/authMiddleware.ts)
\* ------------------------------------------------------------------------
\* authHeader.split(" ")[1]
bearerToken(authHeader) == At(Split(authHeader.s, " "), 2)

\* the checks of authenticate before its remote call
checkAuthHeader(authHeader) ==
    IF ~Truthy(authHeader)
    THEN Fail(401, "Access denied", <<"No authorization header provided">>)
    ELSE IF ~StartsWith(authHeader.s, sBearer)
    THEN Fail(401, "Access denied", <<"Invalid authorization format. Use Bearer <token>">>)
    ELSE IF ~Truthy(bearerToken(authHeader))
    THEN Fail(401, "Access denied", <<"No Token provided">>)
    ELSE Pass

\* AuthService.getUserFromToken: supabase.auth.getUser(accessToken)
getUserFromToken(token) == [svc |-> "idp", op |-> "getUser", arg |-> token]

\* what supabase.auth.getUser can answer: a user (verified or not), an error
\* value, neither, or an exception
VerifiedUser == [id |-> "u1", email_confirmed_at |-> TRUE]
UnverifiedUser == [id |-> "u2", email_confirmed_at |-> FALSE]
GetUserReplies ==
    {[thrown |-> FALSE, error |-> FALSE, user |-> VerifiedUser],
     [thrown |-> FALSE, error |-> FALSE, user |-> UnverifiedUser],
     [thrown |-> FALSE, error |-> TRUE, user |-> Null],
     [thrown |-> FALSE, error |-> FALSE, user |-> Null],
     [thrown |-> TRUE, error |-> FALSE, user |-> Null]}

\* a provider that is assumed to throw on a bad token: error values ignored
tokenRejected_ThrownOnly(r) == r.thrown

\* error || !data.user
tokenRejected(r) == r.error \/ r.user = Null

Authenticate ==
    /\ Enter("authenticate")
    /\ LET o == checkAuthHeader(req.authorization)
       IN  IF o.next
           THEN Await(getUserFromToken(bearerToken(req.authorization).s))
           ELSE Send(o)
    /\ Frame

AuthenticateReturn ==
    /\ Resume("authenticate")
    /\ \E r \in GetUserReplies :
          /\ replies' = Append(replies, r)
          /\ IF r.thrown
             THEN Throw([message |-> "getUser failed", isAppError |-> FALSE])
             ELSE IF tokenRejected(r)
             THEN Send(Fail(401, "Access denied", <<"Invalid or expired token">>))
             ELSE /\ user' = r.user
                  /\ accessToken' = Str(pending.arg)
                  /\ pos' = pos + 1
                  /\ phase' = "ready"
                  /\ pending' = NoCall
                  /\ UNCHANGED <<res, err, calls>>
    /\ Frame

\* the catch block of optionalAuth handing the exception on
optionalAuthCatch_Forward == Throw([message |-> "getUser failed", isAppError |-> FALSE])

\* catch (error) { next(); }
optionalAuthCatch == Continue

\* optionalAuth: the token is looked up only for a Bearer header that has one
OptionalAuth ==
    /\ Enter("optionalAuth")
    /\ IF /\ Truthy(req.authorization)
          /\ StartsWith(req.authorization.s, sBearer)
          /\ Truthy(bearerToken(req.authorization))
       THEN Await(getUserFromToken(bearerToken(req.authorization).s))
       ELSE Continue
    /\ Frame

\* after the await: the user is attached if data.user, then next()
OptionalAuthReturn ==
    /\ Resume("optionalAuth")
    /\ \E r \in GetUserReplies :
          /\ replies' = Append(replies, r)
          /\ IF r.thrown THEN optionalAuthCatch
             ELSE /\ user' = IF r.user # Null THEN r.user ELSE user
                  /\ accessToken' = IF r.user # Null THEN Str(pending.arg) ELSE accessToken
                  /\ pos' = pos + 1
                  /\ phase' = "ready"
                  /\ pending' = NoCall
                  /\ UNCHANGED <<res, err, calls>>
    /\ Frame

\* a gate that lets every attached identity through
requireVerifiedEmail_AnyUser(reqUser) ==
    IF reqUser = Undefined
    THEN Fail(401, "Access denied", <<"Authentication required">>)
    ELSE Pass

requireVerifiedEmail(reqUser) ==
    IF reqUser = Undefined
    THEN Fail(401, "Access denied", <<"Authentication required">>)
    ELSE IF ~reqUser.email_confirmed_at
    THEN Fail(403, "Email not verified",
              <<"Please verify your email before accessing this resource">>)
    ELSE Pass

RequireVerifiedEmail ==
    /\ Enter("requireVerifiedEmail")
    /\ Apply(requireVerifiedEmail(user))
    /\ Frame

\* ------------------------------------------------------------------------
\* Rate limiter (express-rate-limit instances configured in config)
\* ------------------------------------------------------------------------
NoBucket == [hits |-> 0, resetTime |-> 0]

\* one hit on a bucket at time t: a new window when there is none or it has
\* elapsed, one more hit otherwise
hit(limiter, b, t) ==
    IF b.hits = 0 \/ t >= b.resetTime
    THEN [hits |-> 1, resetTime |-> t + windowMs(limiter)]
    ELSE [hits |-> b.hits + 1, resetTime |-> b.resetTime]

\* Retry-After in seconds: Math.ceil((resetTime - now) / 1000)
retryAfter(b, t) == ((b.resetTime - t) + 999) \div 1000

RateLimit ==
    /\ phase = "ready" /\ Stage \in Limiters
    /\ ran' = Append(ran, Stage)
    /\ UNCHANGED replies
    /\ LET k == <<Stage, req.ip>>
           b == hit(Stage, buckets[k], now)
       IN  /\ buckets' = [buckets EXCEPT ![k] = b]
           /\ IF b.hits > max(Stage)
              THEN SendData(Fail(429, limiterMessage(Stage), <<limiterError(Stage)>>),
                            Null, retryAfter(b, now))
              ELSE Continue
    /\ UNCHANGED <<req, now, nodeEnv, served, parked, clientSession>>

\* ------------------------------------------------------------------------
\* Error handler (middleware/errorHandler.ts)
\* ------------------------------------------------------------------------
errorResponse(e, env) ==
    LET statusCode == IF e.isAppError THEN e.statusCode ELSE 500
    IN  Fail(statusCode,
             IF statusCode = 500 THEN "internal server error" ELSE "an error occurred",
             <<IF env = "development" THEN e.message ELSE "something went wrong">>)

ErrorHandler ==
    /\ phase = "error"
    /\ ran' = Append(ran, "errorHandler")
    /\ UNCHANGED replies
    /\ Send(errorResponse(err, nodeEnv))
    /\ Frame

\* ------------------------------------------------------------------------
\* Task service and controllers (services/taskService.ts, taskController)
\* ------------------------------------------------------------------------
\* a || b
Or(a, b) == IF Truthy(a) THEN a ELSE b

\* an object literal: keys whose value is undefined are not sent
ObjOf(f) == [k \in {x \in DOMAIN f : f[x].t # "undefined"} |-> f[k]]

\* queryParams of the getAllTasks controller
queryParams(query) ==
    ObjOf([status |-> Get(query, "status"),
           priority |-> Get(query, "priority"),
           search |-> Get(query, "search"),
           sort_by |-> Get(query, "sort_by"),
           order |-> Get(query, "order"),
           limit |-> IF Truthy(Get(query, "limit"))
                     THEN ParseInt(Get(query, "limit").s) ELSE Undefined,
           offset |-> IF Truthy(Get(query, "offset"))
                      THEN ParseInt(Get(query, "offset").s) ELSE Undefined])

\* `title.ilike.%${params.search}%,description.ilike.%${params.search}%`
orFilter(search) ==
    <<"t", "i", "t", "l", "e", ".", "i", "l", "i", "k", "e", ".", "%">> \o search
    \o <<"%", ",", "d", "e", "s", "c", "r", "i", "p", "t", "i", "o", "n", ".", "i", "l", "i",
        "k", "e", ".", "%">> \o search \o <<"%">>

sCreatedAt == <<"c", "r", "e", "a", "t", "e", "d", "_", "a", "t">>

\* the query TaskService.getAllTasks builds from the controller's params
selectQuery(params) ==
    LET status == Get(params, "status")
        priority == Get(params, "priority")
        search == Get(params, "search")
        limit == Get(params, "limit")
        offset == Get(params, "offset")
    IN  [eq |-> ObjOf([status |-> IF Truthy(status) THEN status ELSE Undefined,
                       priority |-> IF Truthy(priority) THEN priority ELSE Undefined]),
         or |-> IF Truthy(search) THEN Str(orFilter(search.s)) ELSE Undefined,
         order |-> [column |-> Or(Get(params, "sort_by"), Str(sCreatedAt)),
                    ascending |-> Get(params, "order") = Str(sAsc)],
         limit |-> IF Truthy(limit) THEN limit ELSE Undefined,
         range |-> IF Truthy(offset)
                   THEN [from |-> offset.n,
                         to |-> offset.n + (Or(limit, Num(10)).n - 1)]
                   ELSE Undefined]

\* the body spread into the insert, so that its status wins
insertData_BodyStatus(taskData) ==
    ObjOf([title |-> Get(taskData, "title"),
           description |-> Or(Get(taskData, "description"), Null),
           priority |-> Get(taskData, "priority"),
           due_date |-> Or(Get(taskData, "due_date"), Null),
           status |-> Or(Get(taskData, "status"), Str(sPending))])

\* insertData of TaskService.createTask
insertData(taskData) ==
    ObjOf([title |-> Get(taskData, "title"),
           description |-> Or(Get(taskData, "description"), Null),
           priority |-> Get(taskData, "priority"),
           due_date |-> Or(Get(taskData, "due_date"), Null),
           status |-> Str(sPending)])

\* the whole body passed on as the update
updateData_WholeBody(updates) == updates

\* updateData of TaskService.updateTask
updateData(updates) ==
    ObjOf([title |-> Get(updates, "title"),
           description |-> Get(updates, "description"),
           status |-> Get(updates, "status"),
           priority |-> Get(updates, "priority"),
           due_date |-> Get(updates, "due_date")])

DsCall(op, id, arg) == [svc |-> "ds", op |-> op, id |-> id, arg |-> arg]

\* answers of the Data Store: {data, error} or an exception.  A single-row
\* read, insert or update answers one row, or an error value with no data
\* (no row matched, or the store failed).
DbError == [message |-> "db failure"]
NoRowError == [message |-> "no rows returned"]
Data(kind) == [t |-> "object", of |-> kind]
Thrown == [thrown |-> TRUE, error |-> Null, data |-> Null]
Reply(e, d) == [thrown |-> FALSE, error |-> e, data |-> d]
SingleReplies ==
    {Reply(Null, Data("task")), Reply(NoRowError, Null), Reply(DbError, Null), Thrown}
\* the tasks table: status and priority have defaults, priority is checked
\* against its enumeration and title is NOT NULL VARCHAR(255)
columnDefault(f) == IF f = "status" THEN Str(sPending) ELSE Str(sMedium)
insertedRow(payload) ==
    [f \in DOMAIN payload \cup {"status", "priority"} |->
        IF f \in DOMAIN payload THEN payload[f] ELSE columnDefault(f)]
checkConstraints(row) ==
    /\ IsString(row.title) /\ Len(row.title.s) <= 255
    /\ row.priority = Null \/ Includes(VALID_PRIORITIES, row.priority)
Task(row) == [t |-> "object", of |-> "task", row |-> row]

\* insert(..).select().single(): the inserted row, or an error
InsertReplies(payload) ==
    {Reply(DbError, Null), Thrown}
    \cup {Reply(Null, Task(insertedRow(payload))) : x \in
            {y \in {1} : checkConstraints(insertedRow(payload))}}
DeleteReplies == {Reply(Null, Null), Reply(DbError, Null), Thrown}
\* ------------------------------------------------------------------------
\* The Data Store's answer to a select on the tasks table
\* ------------------------------------------------------------------------
\* column named by a character string, "" when the table has none
columnOf(name) ==
    CASE name = <<"t", "i", "t", "l", "e">> -> "title"
      [] name = <<"d", "e", "s", "c", "r", "i", "p", "t", "i", "o", "n">> -> "description"
      [] name = <<"s", "t", "a", "t", "u", "s">> -> "status"
      [] name = <<"p", "r", "i", "o", "r", "i", "t", "y">> -> "priority"
      [] name = <<"d", "u", "e", "_", "d", "a", "t", "e">> -> "due_date"
      [] name = sCreatedAt -> "created_at"
      [] name = <<"u", "p", "d", "a", "t", "e", "d", "_", "a", "t">> -> "updated_at"
      [] name = <<"i", "d">> -> "id"
      [] OTHER -> ""

\* the conditions of or=(c1,c2,...): column.operator.value separated by commas
orConditions(filter) ==
    LET cs == Split(filter, ",")
    IN  [i \in 1..Len(cs) |->
            LET p == Split(cs[i], ".")
            IN  IF Len(p) < 3 THEN [column |-> "", op |-> <<>>, value |-> <<>>]
                ELSE [column |-> columnOf(p[1]), op |-> p[2],
                      value |-> SubSeq(cs[i], Len(p[1]) + Len(p[2]) + 3, Len(cs[i]))]]

conditionOk(c) ==
    /\ c.column \in {"title", "description", "status", "priority"}
    /\ c.op \in {<<"i", "l", "i", "k", "e">>, <<"l", "i", "k", "e">>, <<"e", "q">>}

toLower(s) ==
    LET UpperCase ==
            <<"A", "B", "C", "D", "E", "F", "G", "H", "I", "J", "K", "L", "M", "N",
              "O", "P", "Q", "R", "S", "T", "U", "V", "W", "X", "Y", "Z">>
        LowerCase ==
            <<"a", "b", "c", "d", "e", "f", "g", "h", "i", "j", "k", "l", "m", "n",
              "o", "p", "q", "r", "s", "t", "u", "v", "w", "x", "y", "z">>
    IN  [i \in 1..Len(s) |->
            IF \E k \in 1..Len(UpperCase) : UpperCase[k] = s[i]
            THEN LowerCase[CHOOSE k \in 1..Len(UpperCase) : UpperCase[k] = s[i]]
            ELSE s[i]]

\* text LIKE pattern: % (written * as well) is any run of characters, _ any
\* one character
RECURSIVE likeMatch(_, _)
likeMatch(pattern, text) ==
    IF pattern = <<>> THEN text = <<>>
    ELSE IF Head(pattern) \in {"%", "*"}
    THEN likeMatch(Tail(pattern), text)
         \/ (text # <<>> /\ likeMatch(pattern, Tail(text)))
    ELSE /\ text # <<>>
         /\ Head(pattern) = "_" \/ Head(pattern) = Head(text)
         /\ likeMatch(Tail(pattern), Tail(text))

holds(c, row) ==
    /\ IsString(row[c.column])
    /\ IF c.op = <<"e", "q">> THEN row[c.column].s = c.value
       ELSE IF c.op = <<"l", "i", "k", "e">> THEN likeMatch(c.value, row[c.column].s)
       ELSE likeMatch(toLower(c.value), toLower(row[c.column].s))

selected(query, row) ==
    /\ \A f \in DOMAIN query.eq : row[f] = query.eq[f]
    /\ query.or # Undefined
          => LET cs == orConditions(query.or.s)
             IN  \E i \in 1..Len(cs) : holds(cs[i], row)

\* ORDER BY: numbers by value, strings by character, NULL last when
\* ascending and first when descending
charRank(c) ==
    LET CharOrder ==
            <<" ", "%", "(", ")", ",", "-", ".", "0", "1", "2", "3", "4", "5", "6",
              "7", "8", "9", "A", "B", "C", "D", "E", "F", "G", "H", "I", "J", "K",
              "L", "M", "N", "O", "P", "Q", "R", "S", "T", "U", "V", "W", "X", "Y",
              "Z", "_", "a", "b", "c", "d", "e", "f", "g", "h", "i", "j", "k", "l",
              "m", "n", "o", "p", "q", "r", "s", "t", "u", "v", "w", "x", "y", "z">>
    IN  IF \E k \in 1..Len(CharOrder) : CharOrder[k] = c
        THEN CHOOSE k \in 1..Len(CharOrder) : CharOrder[k] = c
        ELSE 0
RECURSIVE stringLess(_, _)
stringLess(a, b) ==
    IF b = <<>> THEN FALSE
    ELSE IF a = <<>> THEN TRUE
    ELSE IF Head(a) = Head(b) THEN stringLess(Tail(a), Tail(b))
    ELSE charRank(Head(a)) < charRank(Head(b))
valueLess(a, b) ==
    IF a = Null THEN FALSE
    ELSE IF b = Null THEN TRUE
    ELSE IF a.t = "number" THEN a.n < b.n
    ELSE stringLess(a.s, b.s)
\* the rows in the order of the column: row j comes before row i when its
\* value sorts first, or sorts the same and j was first
sortRows(rows, column, ascending) ==
    LET first(a, b) == IF ascending THEN valueLess(a, b) ELSE valueLess(b, a)
        before(j, i) ==
            \/ first(rows[j][column], rows[i][column])
            \/ ~first(rows[i][column], rows[j][column]) /\ j < i
        rank(i) == Cardinality({j \in 1..Len(rows) : before(j, i)})
    IN  [k \in 1..Len(rows) |-> rows[CHOOSE i \in 1..Len(rows) : rank(i) = k - 1]]

\* the rows from position from to position to (counted from 0)
page(rows, from, to) ==
    SubSeq(rows, from + 1, IF to + 1 < Len(rows) THEN to + 1 ELSE Len(rows))

\* select("*", {count: "exact"}) with the filters, order, limit and range of
\* the query, run on a table holding the rows of content
selectRows(query, content) ==
    LET column == columnOf(query.order.column.s)
        broken == \/ column = ""
                  \/ /\ query.or # Undefined
                     /\ LET cs == orConditions(query.or.s)
                        IN  \E i \in 1..Len(cs) : ~conditionOk(cs[i])
        matching == SelectSeq(content, LAMBDA row : selected(query, row))
        sorted == sortRows(matching, column, query.order.ascending)
        paged == IF query.range # Undefined
                 THEN page(sorted, query.range.from, query.range.to)
                 ELSE IF query.limit # Undefined
                 THEN page(sorted, 0, query.limit.n - 1)
                 ELSE sorted
    IN  IF broken THEN Reply(DbError, Null)
        ELSE Reply(Null, [t |-> "rows", rows |-> paged, count |-> Len(matching)])

\* contents of the tasks table
taskRow(id, title, description, status, priority) ==
    [id |-> Num(id), title |-> Str(title), description |-> description,
     status |-> Str(status), priority |-> Str(priority), due_date |-> Null,
     created_at |-> Num(id), updated_at |-> Num(20 - id)]
ThreeCompletedTwoPending ==
    <<taskRow(1, <<"a", "b">>, Null, sCompleted, sHigh),
      taskRow(2, <<"C", "d">>, Str(<<"a", "_", "b">>), sPending, sLow),
      taskRow(3, <<"e">>, Str(<<>>), sCompleted, sMedium),
      taskRow(4, <<"b", ".", "c">>, Null, sCompleted, sLow),
      taskRow(5, <<"f">>, Str(<<"x", "%">>), sPending, sHigh)>>
TwelveTasks ==
    [i \in 1..12 |->
        taskRow(i, <<"t">>, Null, IF i % 2 = 0 THEN sCompleted ELSE sPending, sMedium)]
StoreContents == <<ThreeCompletedTwoPending, TwelveTasks>>

\* what the awaited query of getAllTasks can resolve to: a failure, or the
\* selection from one of the table contents
ListReplies(query) ==
    {Reply(DbError, Null), Thrown}
    \cup {selectRows(query, StoreContents[i]) @@ [store |-> i] :
             i \in 1..Len(StoreContents)}

\* a head select with count: "exact" answers a count, or an error value with
\* count null
CountReplies == {Reply(Null, Num(2)), Reply(DbError, Null), Thrown}

Rejected == [message |-> "remote call failed", isAppError |-> FALSE]

GetAllTasks ==
    /\ Enter("getAllTasks")
    /\ Await(DsCall("select", <<>>, selectQuery(queryParams(req.query))))
    /\ Frame

GetAllTasksReturn ==
    /\ Resume("getAllTasks")
    /\ \E r \in ListReplies(pending.arg) :
          /\ replies' = Append(replies, r)
          /\ IF r.thrown THEN Throw(Rejected)
             ELSE IF r.error # Null
             THEN Send(Fail(500, "Failed to fetch tasks", <<r.error.message>>))
             ELSE SendData(Fail(200, "Found task(s)", <<>>), r.data, 0)
    /\ Frame

GetTaskById ==
    /\ Enter("getTaskById")
    /\ Await(DsCall("selectSingle", req.id, <<>>))
    /\ Frame

GetTaskByIdReturn ==
    /\ Resume("getTaskById")
    /\ \E r \in SingleReplies :
          /\ replies' = Append(replies, r)
          /\ IF r.thrown THEN Throw(Rejected)
             ELSE IF r.error # Null
             THEN Send(Fail(500, "Failed to fetch task", <<r.error.message>>))
             ELSE IF r.data = Null
             THEN Send(Fail(404, "Task not found", <<"No task found with ID">>))
             ELSE SendData(Fail(200, "Task retrieved successfully", <<>>), r.data, 0)
    /\ Frame

CreateTask ==
    /\ Enter("createTask")
    /\ Await(DsCall("insert", <<>>, insertData(req.body)))
    /\ Frame

CreateTaskReturn ==
    /\ Resume("createTask")
    /\ \E r \in InsertReplies(pending.arg) :
          /\ replies' = Append(replies, r)
          /\ IF r.thrown THEN Throw(Rejected)
             ELSE IF r.error # Null
             THEN Send(Fail(500, "Failed to create task", <<r.error.message>>))
             ELSE SendData(Fail(201, "Task created successfully", <<>>), r.data, 0)
    /\ Frame

UpdateTask ==
    /\ Enter("updateTask")
    /\ Await(DsCall("update", req.id, updateData(req.body)))
    /\ Frame

UpdateTaskReturn ==
    /\ Resume("updateTask")
    /\ \E r \in SingleReplies :
          /\ replies' = Append(replies, r)
          /\ IF r.thrown THEN Throw(Rejected)
             ELSE IF r.error # Null
             THEN Send(Fail(500, "Failed to update task", <<r.error.message>>))
             ELSE IF r.data = Null
             THEN Send(Fail(404, "Task not found", <<"No task found with ID">>))
             ELSE SendData(Fail(200, "Task updated successfully", <<>>), r.data, 0)
    /\ Frame

\* TaskService.deleteTask reads the task first
DeleteTask ==
    /\ Enter("deleteTask")
    /\ Await(DsCall("selectSingle", req.id, <<>>))
    /\ Frame

\* after the read: "task not found" is returned as an error value, which the
\* controller answers with 500; otherwise the delete is issued
DeleteTaskRead ==
    /\ Resume("deleteTask") /\ pending.op = "selectSingle"
    /\ \E r \in SingleReplies :
          /\ replies' = Append(replies, r)
          /\ IF r.thrown THEN Throw(Rejected)
             ELSE IF r.data = Null
             THEN Send(Fail(500, "Failed to delete task", <<"task not found">>))
             ELSE Await(DsCall("delete", req.id, <<>>))
    /\ Frame

DeleteTaskReturn ==
    /\ Resume("deleteTask") /\ pending.op = "delete"
    /\ \E r \in DeleteReplies :
          /\ replies' = Append(replies, r)
          /\ IF r.thrown THEN Throw(Rejected)
             ELSE IF r.error # Null
             THEN Send(Fail(500, "Failed to delete task", <<r.error.message>>))
             ELSE SendData(Fail(200, "Task deleted successfully", <<>>), Data("task"), 0)
    /\ Frame

\* TaskService.getTaskStats: four count queries inside one try block
StatsQueries == <<"total", "pending", "in-process", "completed">>

\* {total: total || 0, pending: pending || 0, ...} of the four counts
stats(counts) ==
    [t |-> "object", of |-> "stats",
     total |-> Or(counts[1].data, Num(0)), pending |-> Or(counts[2].data, Num(0)),
     inProgress |-> Or(counts[3].data, Num(0)), completed |-> Or(counts[4].data, Num(0))]

GetTaskStats ==
    /\ Enter("getTaskStats")
    /\ Await(DsCall("count", <<>>, StatsQueries[1]))
    /\ Frame

GetTaskStatsReturn ==
    /\ Resume("getTaskStats")
    /\ \E r \in CountReplies :
          /\ replies' = Append(replies, r)
          /\ IF r.thrown
             THEN Send(Fail(500, "Failed to fetch task statistics",
                            <<"Could not retrieve stats">>))
             ELSE IF Len(calls) < Len(StatsQueries)
             THEN Await(DsCall("count", <<>>, StatsQueries[Len(calls) + 1]))
             ELSE SendData(Fail(200, "Task statistics retrieved successfully", <<>>),
                           stats(replies'), 0)
    /\ Frame

\* ------------------------------------------------------------------------
\* Auth service and controllers (services/authService.ts, authController.ts)
\* ------------------------------------------------------------------------
IdpCall(op, arg) == [svc |-> "idp", op |-> op, arg |-> arg]

IdpError == [message |-> "provider error"]
AuthReplies == {Reply(Null, Data("session")), Reply(IdpError, Null), Thrown}

\* supabase is one client for the whole process: a sign-in, sign-up or
\* refresh that answers a session leaves that session on the client
IssuedToken == Str(<<"n", "e", "w">>)
saveSession(r) ==
    clientSession' = IF ~r.thrown /\ r.error = Null /\ r.data # Null
                     THEN IssuedToken ELSE clientSession
\* supabase.auth.signOut(): the client drops the session it holds
removeSession(r) ==
    clientSession' = IF ~r.thrown /\ r.error = Null THEN Null ELSE clientSession

\* the shape shared by the auth controllers after their await: next(error)
\* on an exception, failStatus with error.message on an error value, the
\* success response otherwise
authOutcome(r, failStatus, failMessage, okStatus, okMessage) ==
    IF r.thrown THEN Throw(Rejected)
    ELSE IF r.error # Null
    THEN Send(Fail(failStatus, failMessage, <<r.error.message>>))
    ELSE SendData(Fail(okStatus, okMessage, <<>>), r.data, 0)

Signup ==
    /\ Enter("signup")
    /\ Await(IdpCall("signUp", ObjOf([email |-> Get(req.body, "email"),
                                      password |-> Get(req.body, "password"),
                                      name |-> Or(Get(req.body, "name"), Null)])))
    /\ Frame

SignupReturn ==
    /\ Resume("signup")
    /\ \E r \in AuthReplies :
          /\ replies' = Append(replies, r)
          /\ authOutcome(r, 400, "Signup failed", 201, "Signup successful!")
          /\ saveSession(r)
    /\ Shared

Login ==
    /\ Enter("login")
    /\ Await(IdpCall("signInWithPassword",
                     ObjOf([email |-> Get(req.body, "email"),
                            password |-> Get(req.body, "password")])))
    /\ Frame

LoginReturn ==
    /\ Resume("login")
    /\ \E r \in AuthReplies :
          /\ replies' = Append(replies, r)
          /\ authOutcome(r, 401, "Login failed", 200, "Login successful!")
          /\ saveSession(r)
    /\ Shared

Logout ==
    /\ Enter("logout")
    /\ Await(IdpCall("signOut", [session |-> clientSession]))
    /\ Frame

LogoutReturn ==
    /\ Resume("logout")
    /\ \E r \in {Reply(Null, Null), Reply(IdpError, Null), Thrown} :
          /\ replies' = Append(replies, r)
          /\ authOutcome(r, 400, "Logout failed", 200, "Logged out successfully")
          /\ removeSession(r)
    /\ Shared

ForgotPassword ==
    /\ Enter("forgotPassword")
    /\ Await(IdpCall("resetPasswordForEmail", Get(req.body, "email")))
    /\ Frame

ForgotPasswordReturn ==
    /\ Resume("forgotPassword")
    /\ \E r \in {Reply(Null, Null), Reply(IdpError, Null), Thrown} :
          /\ replies' = Append(replies, r)
          /\ authOutcome(r, 400, "Failed to send reset email", 200,
                         "If an account exists with this email, a password reset link has been sent.")
    /\ Frame

ResetPassword ==
    /\ Enter("resetPassword")
    /\ Await(IdpCall("updateUser", [password |-> Get(req.body, "password"),
                                     session |-> clientSession]))
    /\ Frame

ResetPasswordReturn ==
    /\ Resume("resetPassword")
    /\ \E r \in {Reply(Null, Data("user")), Reply(IdpError, Null), Thrown} :
          /\ replies' = Append(replies, r)
          /\ authOutcome(r, 400, "Password reset failed", 200,
                         "Password reset successful! You can now login with your new password.")
    /\ Frame

GetCurrentUser ==
    /\ Enter("getCurrentUser")
    /\ SendData(Fail(200, "User retrieved successfully", <<>>), user, 0)
    /\ Frame

RefreshToken ==
    /\ Enter("refreshToken")
    /\ IF ~Truthy(Get(req.body, "refresh_token"))
       THEN Send(Fail(400, "Refresh token required", <<"No refresh token provided">>))
       ELSE Await(IdpCall("refreshSession", Get(req.body, "refresh_token")))
    /\ Frame

RefreshTokenReturn ==
    /\ Resume("refreshToken")
    /\ \E r \in AuthReplies :
          /\ replies' = Append(replies, r)
          /\ authOutcome(r, 401, "Token refresh failed", 200, "Token refreshed successfully")
          /\ saveSession(r)
    /\ Shared

ResendVerification ==
    /\ Enter("resendVerification")
    /\ IF ~Truthy(Get(req.body, "email"))
       THEN Send(Fail(400, "Email required", <<"Please provide an email address">>))
       ELSE Await(IdpCall("resend", Get(req.body, "email")))
    /\ Frame

ResendVerificationReturn ==
    /\ Resume("resendVerification")
    /\ \E r \in {Reply(Null, Null), Reply(IdpError, Null), Thrown} :
          /\ replies' = Append(replies, r)
          /\ authOutcome(r, 400, "Failed to resend verification email", 200,
                         "Verification email sent! Please check your inbox.")
    /\ Frame

\* ------------------------------------------------------------------------
\* Requests received by the server
\* ------------------------------------------------------------------------
MaxRequests == 1

sp == <<" ">>
tok == <<"t", "o", "k">>
sBasic == <<"B", "a", "s", "i", "c">>
sbearer == <<"b", "e", "a", "r", "e", "r">>

\* Authorization header values
BearerTok == Str(sBearer \o sp \o tok)
AuthHeaders ==
    {Undefined, Str(<<>>), Str(sBasic \o sp \o tok), Str(sBearer), Str(sBearer \o tok),
     BearerTok, Str(sBearer \o sp \o sp \o tok), Str(sBearer \o <<"X">> \o sp \o tok),
     Str(sBearer \o sp \o tok \o sp \o <<"x">>), Str(sbearer \o sp \o tok)}
FewAuthHeaders == {Undefined, BearerTok, Str(sBasic \o sp \o tok)}

\* path ids
GoodId == Rep("a", 8) \o <<"-">> \o Rep("1", 4) \o <<"-">> \o Rep("4", 4)
          \o <<"-">> \o Rep("b", 4) \o <<"-">> \o Rep("0", 12)
UpperId == Rep("A", 8) \o <<"-">> \o Rep("1", 4) \o <<"-">> \o Rep("4", 4)
           \o <<"-">> \o Rep("F", 4) \o <<"-">> \o Rep("0", 12)
Ids ==
    {GoodId, UpperId,
     <<"1", "2", "3">>,
     Rep("g", 8) \o SubSeq(GoodId, 9, 36),
     Rep("a", 9) \o SubSeq(GoodId, 10, 36),
     GoodId \o <<"0">>,
     SubSeq(GoodId, 1, 35)}
FewIds == {GoodId, <<"1", "2", "3">>}

\* body and query field values; Undefined stands for an absent key
Titles ==
    {Undefined, Null, Num(0), Num(5), Str(<<>>), Str(<<" ", "\t", " ">>),
     Str(<<"o", "k">>), Str(<<" ", "a", " ">>), Str(Rep("a", 255)), Str(Rep("a", 256))}
FewTitles == {Undefined, Str(<<>>), Str(<<"o", "k">>), Str(Rep("a", 256))}
Priorities ==
    {Undefined, Str(sHigh), Str(<<"u", "r", "g", "e", "n", "t">>), Num(1), Num(0), Str(<<>>)}
FewPriorities == {Undefined, Str(sLow), Str(<<"u", "r", "g", "e", "n", "t">>), Str(<<>>)}
Statuses ==
    {Undefined, Str(sPending), Str(sInProgress), Str(sInProcess), Str(sCompleted),
     Str(<<"d", "o", "n", "e">>), Str(<<>>)}
Descriptions == {Undefined, Null, Str(<<>>), Str(<<"d">>)}
DueDates ==
    {Undefined, Str(<<"2", "0", "2", "4", "-", "0", "1", "-", "1", "5">>),
     Str(<<"s", "o", "o", "n">>)}
Limits ==
    {Undefined, Str(<<>>), Str(<<"0">>), Str(<<"1">>), Str(<<"1", "0", "0">>),
     Str(<<"1", "0", "1">>), Str(<<"-", "5">>), Str(<<"a", "b", "c">>),
     Str(<<"1", ".", "5">>), Str(<<"1", "0", "0", ".", "5">>), Str(<<"0", ".", "5">>),
     Str(<<" ", "7", " ">>), Str(<<"0", ".", "5", "e", "1">>), Str(<<"1", "e", "3">>)}
Offsets ==
    {Undefined, Str(<<"0">>), Str(<<"5">>), Str(<<"-", "1">>), Str(<<"-", "0", ".", "5">>),
     Str(<<"x">>), Str(<<".", "5">>)}
Orders == {Undefined, Str(sAsc), Str(<<"u", "p">>)}
Emails ==
    {Undefined, Num(5), Str(<<"a", "@", "b", ".", "c">>), Str(<<"b", "a", "d">>),
     Str(<<"a", "@", "b">>), Str(<<"a", " ", "@", "b", ".", "c">>)}
FewEmails == {Undefined, Num(5), Str(<<"a", "@", "b", ".", "c">>), Str(<<"b", "a", "d">>)}
Passwords ==
    {Undefined, Num(1), Str(Rep("p", 5)), Str(Rep("p", 6)), Str(Rep("p", 72)),
     Str(Rep("p", 73))}
Names == {Undefined, Num(1)}

Request(route, auth, id, body, query) ==
    [route |-> route, ip |-> "ip1", authorization |-> auth, id |-> id,
     body |-> body, query |-> query]

OkCreateBody == ObjOf([title |-> Str(<<"o", "k">>)])

TaskListRequests ==
    {Request("GET /tasks", Undefined, <<>>, <<>>, ObjOf([limit |-> l, offset |-> o])) :
        l \in Limits, o \in Offsets}
    \cup {Request("GET /tasks", Undefined, <<>>, <<>>,
                  ObjOf([status |-> s, priority |-> p, limit |-> l, offset |-> o,
                         order |-> d])) :
            s \in {Undefined, Str(sPending), Str(<<"d", "o", "n", "e">>)},
            p \in {Undefined, Str(<<"u", "r", "g", "e", "n", "t">>)},
            l \in {Undefined, Str(<<"1", "0", "1">>)},
            o \in {Undefined, Str(<<"-", "1">>)},
            d \in Orders}
    \cup {Request("GET /tasks", Undefined, <<>>, <<>>, ObjOf([status |-> s])) :
            s \in Statuses}

CreateRequests ==
    {Request("POST /tasks", a, <<>>, b, <<>>) :
        a \in FewAuthHeaders, b \in {<<>>, OkCreateBody}}
    \cup {Request("POST /tasks", BearerTok, <<>>,
                  ObjOf([title |-> t, priority |-> p, due_date |-> d]), <<>>) :
            t \in Titles, p \in Priorities, d \in DueDates}
    \cup {Request("POST /tasks", BearerTok, <<>>,
                  ObjOf([title |-> Str(<<"o", "k">>), description |-> c, status |-> s,
                         priority |-> p, id |-> i]), <<>>) :
            c \in Descriptions, s \in {Undefined, Str(sCompleted)},
            p \in {Undefined, Str(sLow)}, i \in {Undefined, Str(<<"7">>)}}

UpdateRequests ==
    {Request("PUT /tasks/:id", a, i, b, <<>>) :
        a \in FewAuthHeaders, i \in FewIds, b \in {<<>>, OkCreateBody}}
    \cup {Request("PUT /tasks/:id", BearerTok, GoodId,
                  ObjOf([title |-> t, status |-> s, priority |-> p, due_date |-> d]),
                  <<>>) :
            t \in FewTitles, s \in Statuses, p \in FewPriorities,
            d \in {Undefined, Str(<<"s", "o", "o", "n">>)}}
    \cup {Request("PUT /tasks/:id", BearerTok, GoodId,
                  ObjOf([title |-> t, description |-> c, created_at |-> x, id |-> i]),
                  <<>>) :
            t \in {Undefined, Str(<<"o", "k">>)}, c \in Descriptions,
            x \in {Undefined, Str(<<"x">>)}, i \in {Undefined, Str(<<"7">>)}}

Requests ==
    {Request("GET /tasks/stats", Undefined, <<>>, <<>>, <<>>)}
    \cup TaskListRequests
    \cup {Request("GET /tasks/:id", Undefined, i, <<>>, <<>>) : i \in Ids}
    \cup CreateRequests
    \cup UpdateRequests
    \cup {Request("DELETE /tasks/:id", a, i, <<>>, <<>>) : a \in FewAuthHeaders, i \in Ids}
    \cup {Request("POST /auth/signup", Undefined, <<>>,
                  ObjOf([email |-> e, password |-> p, name |-> n]), <<>>) :
            e \in FewEmails, p \in Passwords, n \in Names}
    \cup {Request("POST /auth/login", Undefined, <<>>,
                  ObjOf([email |-> e, password |-> p]), <<>>) :
            e \in FewEmails, p \in {Undefined, Num(1), Str(Rep("p", 6))}}
    \cup {Request("POST /auth/forgot-password", Undefined, <<>>,
                  ObjOf([email |-> e]), <<>>) : e \in Emails \cup {Null}}
    \cup {Request("POST /auth/refresh", Undefined, <<>>,
                  ObjOf([refresh_token |-> r]), <<>>) :
            r \in {Undefined, Str(<<>>), Str(tok)}}
    \cup {Request("POST /auth/resend-verification", Undefined, <<>>,
                  ObjOf([email |-> e]), <<>>) : e \in Emails}
    \cup {Request("POST /auth/logout", a, <<>>, <<>>, <<>>) : a \in AuthHeaders}
    \cup {Request("GET /auth/me", a, <<>>, <<>>, <<>>) : a \in AuthHeaders}
    \cup {Request("POST /auth/reset-password", a, <<>>,
                  ObjOf([password |-> p]), <<>>) :
            a \in FewAuthHeaders, p \in Passwords}

NoErr == [message |-> "", isAppError |-> FALSE]

\* a request enters its route's chain
Receive(r) ==
    /\ req' = r
    /\ pos' = 1
    /\ phase' = "ready"
    /\ res' = NoRes
    /\ user' = Undefined
    /\ accessToken' = Undefined
    /\ pending' = NoCall
    /\ calls' = <<>>
    /\ replies' = <<>>
    /\ ran' = <<>>
    /\ err' = NoErr
    /\ served' = served + 1
    /\ UNCHANGED <<buckets, now, nodeEnv, clientSession>>

\* the next request is received once the previous one is answered
Arrive ==
    /\ phase \in {"idle", "done"}
    /\ served < MaxRequests
    /\ \E r \in Requests : Receive(r)
    /\ UNCHANGED parked

\* the limiter stores start empty, or with every window open and used up
FullBucket(limiter) == [hits |-> max(limiter), resetTime |-> windowMs(limiter)]

\* no request received yet
NoRequestYet ==
    /\ req = NoReq
    /\ pos = 0
    /\ phase = "idle"
    /\ res = NoRes
    /\ user = Undefined
    /\ accessToken = Undefined
    /\ pending = NoCall
    /\ calls = <<>>
    /\ replies = <<>>
    /\ ran = <<>>
    /\ err = NoErr
    /\ now = 0
    /\ served = 0
    /\ clientSession = Null

Init ==
    /\ NoRequestYet
    /\ parked = EmptyBag
    /\ \E full \in BOOLEAN :
          buckets = [k \in Limiters \X {"ip1"} |->
                        IF full THEN FullBucket(k[1]) ELSE NoBucket]
    /\ nodeEnv \in {"development", "production"}

Next ==
    \/ Arrive
    \/ RateLimit
    \/ Authenticate \/ AuthenticateReturn
    \/ ValidateCreateTask \/ ValidateUpdateTask \/ ValidateTaskId \/ ValidateQueryParams
    \/ ValidateSignup \/ ValidateLogin \/ ValidateForgotPassword \/ ValidateResetPassword
    \/ GetAllTasks \/ GetAllTasksReturn
    \/ GetTaskById \/ GetTaskByIdReturn
    \/ CreateTask \/ CreateTaskReturn
    \/ UpdateTask \/ UpdateTaskReturn
    \/ DeleteTask \/ DeleteTaskRead \/ DeleteTaskReturn
    \/ GetTaskStats \/ GetTaskStatsReturn
    \/ Signup \/ SignupReturn
    \/ Login \/ LoginReturn
    \/ Logout \/ LogoutReturn
    \/ ForgotPassword \/ ForgotPasswordReturn
    \/ ResetPassword \/ ResetPasswordReturn
    \/ GetCurrentUser
    \/ RefreshToken \/ RefreshTokenReturn
    \/ ResendVerification \/ ResendVerificationReturn
    \/ ErrorHandler

Spec == Init /\ [][Next]_vars

\* a received request is run to its end: the event loop runs every handler
\* that is ready, and every remote call returns or throws
RunRequest ==
    \/ RateLimit
    \/ Authenticate \/ AuthenticateReturn
    \/ ValidateCreateTask \/ ValidateUpdateTask \/ ValidateTaskId \/ ValidateQueryParams
    \/ ValidateSignup \/ ValidateLogin \/ ValidateForgotPassword \/ ValidateResetPassword
    \/ GetAllTasks \/ GetAllTasksReturn
    \/ GetTaskById \/ GetTaskByIdReturn
    \/ CreateTask \/ CreateTaskReturn
    \/ UpdateTask \/ UpdateTaskReturn
    \/ DeleteTask \/ DeleteTaskRead \/ DeleteTaskReturn
    \/ GetTaskStats \/ GetTaskStatsReturn
    \/ Signup \/ SignupReturn
    \/ Login \/ LoginReturn
    \/ Logout \/ LogoutReturn
    \/ ForgotPassword \/ ForgotPasswordReturn
    \/ ResetPassword \/ ResetPasswordReturn
    \/ GetCurrentUser
    \/ RefreshToken \/ RefreshTokenReturn
    \/ ResendVerification \/ ResendVerificationReturn
    \/ ErrorHandler

\* requests that take every route down each of its paths
LiveRequests ==
    {Request("GET /tasks/stats", Undefined, <<>>, <<>>, <<>>)}
    \cup {Request("GET /tasks", Undefined, <<>>, <<>>, q) :
            q \in {<<>>, ObjOf([limit |-> Str(<<"0">>)]), ObjOf([limit |-> Str(<<"1">>)])}}
    \cup {Request("GET /tasks/:id", Undefined, i, <<>>, <<>>) : i \in FewIds}
    \cup {Request("POST /tasks", a, <<>>, b, <<>>) :
            a \in FewAuthHeaders, b \in {<<>>, OkCreateBody}}
    \cup {Request("PUT /tasks/:id", a, i, b, <<>>) :
            a \in FewAuthHeaders, i \in FewIds, b \in {<<>>, OkCreateBody}}
    \cup {Request("DELETE /tasks/:id", a, i, <<>>, <<>>) :
            a \in FewAuthHeaders, i \in FewIds}
    \cup {Request("POST /auth/signup", Undefined, <<>>,
                  ObjOf([email |-> e, password |-> Str(Rep("p", 6))]), <<>>) :
            e \in FewEmails}
    \cup {Request("POST /auth/login", Undefined, <<>>,
                  ObjOf([email |-> e, password |-> Str(Rep("p", 6))]), <<>>) :
            e \in FewEmails}
    \cup {Request("POST /auth/forgot-password", Undefined, <<>>,
                  ObjOf([email |-> e]), <<>>) : e \in FewEmails}
    \cup {Request("POST /auth/refresh", Undefined, <<>>,
                  ObjOf([refresh_token |-> r]), <<>>) : r \in {Undefined, Str(tok)}}
    \cup {Request("POST /auth/resend-verification", Undefined, <<>>,
                  ObjOf([email |-> e]), <<>>) : e \in FewEmails}
    \cup {Request("POST /auth/logout", a, <<>>, <<>>, <<>>) : a \in FewAuthHeaders}
    \cup {Request("GET /auth/me", a, <<>>, <<>>, <<>>) : a \in FewAuthHeaders}
    \cup {Request("POST /auth/reset-password", a, <<>>,
                  ObjOf([password |-> p]), <<>>) :
            a \in FewAuthHeaders, p \in {Undefined, Str(Rep("p", 6))}}

ArriveLive ==
    /\ phase \in {"idle", "done"}
    /\ served < MaxRequests
    /\ \E r \in LiveRequests : Receive(r)
    /\ UNCHANGED parked

NextLive == ArriveLive \/ RunRequest

SpecLive == Init /\ [][NextLive]_vars /\ WF_vars(RunRequest)

\* ------------------------------------------------------------------------
\* One caller on one rate-limited route, with time passing
\* ------------------------------------------------------------------------
MaxArrivals == 32
MaxTicks == 5

\* clock step: one millisecond short of a quarter of an hour
TickMs == 15 * 60 * 1000 - 1

LimitedRoutes == {r \in Routes : \E i \in DOMAIN Chain(r) : Chain(r)[i] \in Limiters}
limiterIndex(route) == CHOOSE i \in DOMAIN Chain(route) : Chain(route)[i] \in Limiters
limiterOf(route) == Chain(route)[limiterIndex(route)]

OkCredentials ==
    ObjOf([email |-> Str(<<"a", "@", "b", ".", "c">>), password |-> Str(Rep("p", 6))])

LimitedRequests ==
    {Request("POST /auth/login", Undefined, <<>>, OkCredentials, <<>>),
     Request("POST /auth/login", Undefined, <<>>, <<>>, <<>>),
     Request("POST /auth/signup", Undefined, <<>>, <<>>, <<>>),
     Request("POST /auth/forgot-password", Undefined, <<>>, <<>>, <<>>),
     Request("POST /auth/signup", Undefined, <<>>, OkCredentials, <<>>),
     Request("POST /auth/forgot-password", Undefined, <<>>,
             ObjOf([email |-> Str(<<"a", "@", "b", ".", "c">>)]), <<>>),
     Request("POST /tasks", BearerTok, <<>>, OkCreateBody, <<>>)}

\* the caller sends its next request to the same route
ArriveLimited ==
    /\ phase \in {"idle", "done"}
    /\ served < MaxArrivals
    /\ \E r \in LimitedRequests :
          /\ served = 0 \/ r.route = req.route
          /\ Receive(r)
    /\ UNCHANGED parked

Tick ==
    /\ now + TickMs <= MaxTicks * TickMs
    /\ now' = now + TickMs
    /\ UNCHANGED <<req, pos, phase, res, user, accessToken, pending, calls, replies, ran,
                   err, buckets, nodeEnv, served, parked, clientSession>>

InitLimiter ==
    /\ NoRequestYet
    /\ parked = EmptyBag
    /\ buckets = [k \in Limiters \X {"ip1"} |-> NoBucket]
    /\ nodeEnv \in {"development", "production"}

NextLimiter ==
    \/ ArriveLimited
    \/ Tick
    \/ RateLimit
    \/ Authenticate \/ AuthenticateReturn
    \/ ValidateCreateTask \/ ValidateSignup \/ ValidateLogin \/ ValidateForgotPassword
    \/ CreateTask \/ CreateTaskReturn
    \/ Signup \/ SignupReturn
    \/ Login \/ LoginReturn
    \/ ForgotPassword \/ ForgotPasswordReturn
    \/ ErrorHandler

SpecLimiter == InitLimiter /\ [][NextLimiter]_vars

\* ------------------------------------------------------------------------
\* Several requests of one caller in flight on one rate-limited route
\* ------------------------------------------------------------------------
MaxInFlight == 3

\* the per-request state of the request that has control
Ctx ==
    [req |-> req, pos |-> pos, phase |-> phase, res |-> res, user |-> user,
     accessToken |-> accessToken, pending |-> pending, calls |-> calls,
     replies |-> replies, ran |-> ran, err |-> err]

Load(c) ==
    /\ req' = c.req
    /\ pos' = c.pos
    /\ phase' = c.phase
    /\ res' = c.res
    /\ user' = c.user
    /\ accessToken' = c.accessToken
    /\ pending' = c.pending
    /\ calls' = c.calls
    /\ replies' = c.replies
    /\ ran' = c.ran
    /\ err' = c.err

\* a request of this window that is already answered: it passed the limiter
\* and its empty body was refused by the validator
AnsweredEarlier(route) ==
    LET create == route = "POST /tasks"
        o == CASE route = "POST /tasks" -> validateCreateTask(<<>>)
               [] route = "POST /auth/login" -> validateLogin(<<>>)
               [] route = "POST /auth/signup" -> validateSignup(<<>>)
               [] route = "POST /auth/forgot-password" -> validateForgotPassword(<<>>)
        at == limiterIndex(route) + 1
    IN  [req |-> Request(route, IF create THEN BearerTok ELSE Undefined, <<>>, <<>>, <<>>),
         pos |-> at,
         phase |-> "done",
         res |-> [sent |-> 1, status |-> o.status, message |-> o.message,
                  error |-> o.error, retryAfter |-> 0, data |-> Null],
         user |-> IF create THEN VerifiedUser ELSE Undefined,
         accessToken |-> IF create THEN Str(tok) ELSE Undefined,
         pending |-> NoCall,
         calls |-> IF create THEN <<getUserFromToken(tok)>> ELSE <<>>,
         replies |-> IF create
                     THEN <<[thrown |-> FALSE, error |-> FALSE, user |-> VerifiedUser]>>
                     ELSE <<>>,
         ran |-> SubSeq(Chain(route), 1, at),
         err |-> NoErr]

\* a request is received while others are in flight
ArriveConcurrent ==
    /\ served < MaxInFlight
    /\ \E r \in LimitedRequests :
          /\ \E c \in BagToSet(parked) : c.req.route = r.route
          /\ Receive(r)
    /\ parked' = IF phase = "idle" THEN parked ELSE parked (+) SetToBag({Ctx})

\* the event loop hands control to another request in flight
Switch ==
    /\ phase # "idle"
    /\ \E c \in BagToSet(parked) :
          /\ c.phase # "done"
          /\ Load(c)
          /\ parked' = (parked (-) SetToBag({c})) (+) SetToBag({Ctx})
    /\ UNCHANGED <<buckets, now, nodeEnv, served, clientSession>>

\* the window is open and all but one or two requests of its budget are used
InitConcurrent ==
    /\ NoRequestYet
    /\ nodeEnv \in {"development", "production"}
    /\ \E route \in LimitedRoutes : \E left \in 1..2 :
          /\ parked = [c \in {AnsweredEarlier(route)} |-> max(limiterOf(route)) - left]
          /\ buckets = [k \in Limiters \X {"ip1"} |->
                          IF k[1] = limiterOf(route)
                          THEN [hits |-> max(k[1]) - left, resetTime |-> windowMs(k[1])]
                          ELSE NoBucket]

NextConcurrent ==
    \/ ArriveConcurrent
    \/ Switch
    \/ RateLimit
    \/ Authenticate \/ AuthenticateReturn
    \/ ValidateCreateTask \/ ValidateSignup \/ ValidateLogin \/ ValidateForgotPassword
    \/ CreateTask \/ CreateTaskReturn
    \/ Signup \/ SignupReturn
    \/ Login \/ LoginReturn
    \/ ForgotPassword \/ ForgotPasswordReturn
    \/ ErrorHandler

SpecConcurrent == InitConcurrent /\ [][NextConcurrent]_vars

\* ------------------------------------------------------------------------
\* The list route alone, with its filters, search, sorting and paging
\* ------------------------------------------------------------------------
Searches ==
    {Undefined, Str(<<>>), Str(<<"a">>), Str(<<"B">>), Str(<<"_">>), Str(<<"%">>),
     Str(<<".">>), Str(<<"a", ",", "b">>), Str(<<"(">>),
     Str(<<"x", ",", "s", "t", "a", "t", "u", "s", ".", "l", "i", "k", "e", ".", "p">>)}
SortColumns ==
    {Undefined, Str(<<>>), Str(sCreatedAt), Str(<<"u", "p", "d", "a", "t", "e", "d", "_", "a", "t">>),
     Str(<<"d", "u", "e", "_", "d", "a", "t", "e">>), Str(<<"p", "r", "i", "o", "r", "i", "t", "y">>), Str(<<"t", "i", "t", "l", "e">>),
     Str(<<"o", "w", "n", "e", "r">>)}
PageLimits ==
    {Undefined, Str(<<"2">>), Str(<<"5">>), Str(<<"0", ".", "5", "e", "1">>),
     Str(<<"1", "0", "0">>)}
PageOffsets == {Undefined, Str(<<"0">>), Str(<<"1">>), Str(<<"3">>), Str(<<"1", "1">>)}

QueryRequests ==
    {Request("GET /tasks", Undefined, <<>>, <<>>,
             ObjOf([status |-> s, priority |-> p, search |-> q, limit |-> l, offset |-> o])) :
        s \in {Undefined, Str(sCompleted), Str(sPending)},
        p \in {Undefined, Str(sHigh)},
        q \in Searches, l \in {Undefined, Str(<<"2">>)}, o \in {Undefined}}
    \cup {Request("GET /tasks", Undefined, <<>>, <<>>,
                  ObjOf([status |-> s, limit |-> l, offset |-> o])) :
            s \in {Undefined, Str(sCompleted)}, l \in PageLimits, o \in PageOffsets}
    \cup {Request("GET /tasks", Undefined, <<>>, <<>>,
                  ObjOf([sort_by |-> c, order |-> d, limit |-> l, offset |-> o])) :
            c \in SortColumns, d \in {Undefined, Str(sAsc), Str(sDesc), Str(<<"u", "p">>)},
            l \in {Undefined, Str(<<"2">>)}, o \in {Undefined, Str(<<"0">>), Str(<<"1">>)}}

ArriveQuery ==
    /\ phase \in {"idle", "done"}
    /\ served < MaxRequests
    /\ \E r \in QueryRequests : Receive(r)
    /\ UNCHANGED parked

NextQuery ==
    \/ ArriveQuery
    \/ ValidateQueryParams
    \/ GetAllTasks \/ GetAllTasksReturn
    \/ ErrorHandler

SpecQuery == Init /\ [][NextQuery]_vars

\* ------------------------------------------------------------------------
\* Concurrent deletes of one task, the Data Store keeping the row until a
\* delete of it succeeds
\* ------------------------------------------------------------------------
InFlight == BagToSet(parked) \cup {c \in {Ctx} : phase # "idle"}

\* some request's delete of the row has been carried out
RowDeleted ==
    \E c \in InFlight : \E i \in 1..Len(c.replies) :
        /\ c.calls[i].svc = "ds" /\ c.calls[i].op = "delete"
        /\ ~c.replies[i].thrown /\ c.replies[i].error = Null

ArriveDelete ==
    /\ served < MaxInFlight
    /\ Receive(Request("DELETE /tasks/:id", BearerTok, GoodId, <<>>, <<>>))
    /\ parked' = IF phase = "idle" THEN parked ELSE parked (+) SetToBag({Ctx})

\* the read of deleteTask against that store: when the store answers, it
\* answers the row if it is still there and no row otherwise
DeleteTaskReadStored ==
    /\ DeleteTaskRead
    /\ LET r == replies'[Len(replies')]
       IN  \/ r.thrown
           \/ r.error = DbError
           \/ r.data # Null /\ ~RowDeleted
           \/ r.error = NoRowError /\ RowDeleted

NextDelete ==
    \/ ArriveDelete
    \/ Switch
    \/ Authenticate \/ AuthenticateReturn
    \/ ValidateTaskId
    \/ DeleteTask \/ DeleteTaskReadStored \/ DeleteTaskReturn
    \/ ErrorHandler

SpecDelete == Init /\ [][NextDelete]_vars

\* ------------------------------------------------------------------------
\* The optional and the verified-email gates in front of getCurrentUser
\* ------------------------------------------------------------------------
GatedRequests ==
    {Request(route, a, <<>>, <<>>, <<>>) : route \in GatedRoutes, a \in AuthHeaders}

ArriveGated ==
    /\ phase \in {"idle", "done"}
    /\ served < MaxRequests
    /\ \E r \in GatedRequests : Receive(r)
    /\ UNCHANGED parked

NextGated ==
    \/ ArriveGated
    \/ Authenticate \/ AuthenticateReturn
    \/ OptionalAuth \/ OptionalAuthReturn
    \/ RequireVerifiedEmail
    \/ GetCurrentUser
    \/ ErrorHandler

SpecGated == Init /\ [][NextGated]_vars

\* ------------------------------------------------------------------------
\* Sign-in, sign-out and password reset of several callers in flight
\* ------------------------------------------------------------------------
SessionRequests ==
    {Request("POST /auth/login", Undefined, <<>>, OkCredentials, <<>>),
     Request("POST /auth/reset-password", BearerTok, <<>>,
             ObjOf([password |-> Str(Rep("p", 6))]), <<>>)}
    \cup {Request("POST /auth/logout", a, <<>>, <<>>, <<>>) :
            a \in {BearerTok, Str(sBearer \o sp \o IssuedToken.s)}}

\* callers with a request in flight at the same time
MaxCallers == 2

ArriveSession ==
    /\ served < MaxCallers
    /\ \E r \in SessionRequests : Receive(r)
    /\ parked' = IF phase = "idle" THEN parked ELSE parked (+) SetToBag({Ctx})

NextSession ==
    \/ ArriveSession
    \/ Switch
    \/ RateLimit
    \/ Authenticate \/ AuthenticateReturn
    \/ ValidateLogin \/ ValidateResetPassword
    \/ Login \/ LoginReturn
    \/ Logout \/ LogoutReturn
    \/ ResetPassword \/ ResetPasswordReturn
    \/ ErrorHandler

SpecSession == Init /\ [][NextSession]_vars

\* ------------------------------------------------------------------------
\* Properties
\* ------------------------------------------------------------------------
Has(s, x) == \E i \in 1..Len(s) : s[i] = x
Last(s) == s[Len(s)]
NoDsCall == \A i \in 1..Len(calls) : calls[i].svc # "ds"
NoIdpCall == \A i \in 1..Len(calls) : calls[i].svc # "idp"
Controllers ==
    {"getTaskStats", "getAllTasks", "getTaskById", "createTask", "updateTask",
     "deleteTask", "signup", "login", "forgotPassword", "refreshToken",
     "resendVerification", "logout", "getCurrentUser", "resetPassword"}
NoBusiness == \A i \in 1..Len(ran) : ran[i] \notin Controllers

\* a title that is missing, not a string, empty or made of white space only
BlankTitle(v) == v.t # "string" \/ AllIn(v.s, WhiteSpace)

TitleMessages ==
    {"Title is required and must be an non-empty string",
     "Title must be 255 character or less",
     "title must be a non-empty string",
     "title must be 255 characters or less"}

\* C1: a POST /tasks request that reaches the validator with a missing,
\* non-string, empty or white-space-only title is answered 400 with an error
\* that names the title, and no insert is sent to the Data Store.
C1_BlankTitleRejected ==
    (/\ req.route = "POST /tasks"
     /\ Has(ran, "validateCreateTask")
     /\ BlankTitle(Get(req.body, "title")))
    => /\ phase = "done"
       /\ res.sent = 1
       /\ res.status = 400
       /\ \E i \in 1..Len(res.error) : res.error[i] \in TitleMessages
       /\ NoDsCall
       /\ ~Has(ran, "createTask")

C1_Witness ==
    /\ req.route = "POST /tasks"
    /\ Has(ran, "validateCreateTask")
    /\ Get(req.body, "title") = Str(<<" ", "\t", " ">>)
    /\ res.status = 400

\* the identifier format: five groups of 8, 4, 4, 4 and 12 hexadecimal
\* digits separated by hyphens
IdFormat(s) ==
    LET g == Split(s, "-")
    IN  /\ Len(g) = 5
        /\ <<Len(g[1]), Len(g[2]), Len(g[3]), Len(g[4]), Len(g[5])>> = <<8, 4, 4, 4, 12>>
        /\ \A k \in 1..5 : AllIn(g[k], HexLower \cup HexUpper)

ByIdRoutes == {"GET /tasks/:id", "PUT /tasks/:id", "DELETE /tasks/:id"}

\* C2 as stated: on GET, PUT and DELETE /tasks/{id} an id that does not match
\* the identifier format is answered 400 and no remote call at all is made.
C2_Original ==
    (req.route \in ByIdRoutes /\ ~IdFormat(req.id) /\ phase = "done")
    => (res.status = 400 /\ calls = <<>>)

\* C2 amended: with an id that does not match the identifier format no Data
\* Store call is ever made; GET /tasks/{id} answers 400 without any remote
\* call; PUT and DELETE run the auth gate first, so they answer 400 when the
\* gate admits the request (its identity check being the only remote call)
\* and the gate's 401 or 500 otherwise.
C2_MalformedIdNeverReachesStore ==
    (req.route \in ByIdRoutes /\ ~IdFormat(req.id))
    => /\ NoDsCall
       /\ NoBusiness
       /\ (phase = "done" /\ req.route = "GET /tasks/:id")
             => (res.status = 400 /\ calls = <<>>)
       /\ (phase = "done" /\ req.route # "GET /tasks/:id" /\ user # Undefined)
             => (res.status = 400 /\ Len(calls) = 1 /\ calls[1].op = "getUser")
       /\ (phase = "done" /\ req.route # "GET /tasks/:id" /\ user = Undefined)
             => res.status \in {401, 500}

C2_Witness ==
    /\ req.route = "DELETE /tasks/:id"
    /\ req.id = Rep("g", 8) \o SubSeq(GoodId, 9, 36)
    /\ phase = "done"
    /\ res.status = 400
    /\ Len(calls) = 1

\* a query value that is supplied: a non-empty string
Supplied(v) == v.t = "string" /\ v.s # <<>>
LimitOutside(v) ==
    Supplied(v) /\ (NumLess(ToNumber(v.s), 1) \/ NumGreater(ToNumber(v.s), 100))
LimitInside(v) ==
    Supplied(v) => (/\ ~IsNaN(ToNumber(v.s))
                    /\ ~NumLess(ToNumber(v.s), 1)
                    /\ ~NumGreater(ToNumber(v.s), 100))
OffsetNegative(v) == Supplied(v) /\ NumLess(ToNumber(v.s), 0)
OffsetInside(v) == Supplied(v) => (~IsNaN(ToNumber(v.s)) /\ ~NumLess(ToNumber(v.s), 0))
OtherParamsValid(q) ==
    /\ Supplied(Get(q, "status")) => Includes(VALID_STATUSES, Get(q, "status"))
    /\ Supplied(Get(q, "priority")) => Includes(VALID_PRIORITIES, Get(q, "priority"))
    /\ Supplied(Get(q, "order")) => Includes(VALID_ORDERS, Get(q, "order"))

\* C3: a GET /tasks request whose limit is a number outside [1,100] or whose
\* offset is a number below 0 is answered 400 and the Data Store is not
\* queried; with a limit in [1,100] and an offset >= 0 (or none), and the
\* other parameters valid, the request reaches the list operation.
C3_LimitOffsetRange ==
    (req.route = "GET /tasks" /\ phase = "done")
    => /\ (LimitOutside(Get(req.query, "limit")) \/ OffsetNegative(Get(req.query, "offset")))
             => (res.status = 400 /\ calls = <<>> /\ ~Has(ran, "getAllTasks"))
       /\ (/\ LimitInside(Get(req.query, "limit"))
           /\ OffsetInside(Get(req.query, "offset"))
           /\ OtherParamsValid(req.query))
             => (Has(ran, "getAllTasks") /\ Len(calls) = 1 /\ calls[1].op = "select")

C3_Witness ==
    /\ req.route = "GET /tasks"
    /\ phase = "done"
    /\ Get(req.query, "limit") = Str(<<"1", "0", "1">>)
    /\ Get(req.query, "offset") = Str(<<"5">>)
    /\ res.status = 400

RequiredAuthRoutes ==
    {"POST /tasks", "PUT /tasks/:id", "DELETE /tasks/:id",
     "POST /auth/logout", "GET /auth/me", "POST /auth/reset-password"}

\* the Identity Provider answered the token check with "invalid or expired"
ReportedInvalid ==
    \E i \in 1..Len(replies) :
        /\ calls[i].op = "getUser"
        /\ ~replies[i].thrown
        /\ (replies[i].error \/ replies[i].user = Null)

\* C4: on a required-auth route a request without an Authorization header
\* is answered 401 and the Identity Provider is never called; a request whose
\* token the Identity Provider reports invalid or expired is answered 401; in
\* both cases no identity is attached and the business operation never runs.
C4_AuthGateRejects ==
    (req.route \in RequiredAuthRoutes)
    => /\ (req.authorization = Undefined)
             => (NoIdpCall /\ user = Undefined /\ NoBusiness /\ NoDsCall)
       /\ (req.authorization = Undefined /\ phase = "done")
             => (res.status = 401 /\ res.sent = 1)
       /\ ReportedInvalid
             => (/\ phase = "done" /\ res.status = 401 /\ res.sent = 1
                 /\ user = Undefined /\ NoBusiness /\ NoDsCall)

C4_Witness ==
    /\ req.route = "POST /tasks"
    /\ req.authorization = BearerTok
    /\ Len(replies) = 1
    /\ ReportedInvalid
    /\ res.status = 401

\* exactly "Bearer", one space and a non-empty token without white space
ExactBearer(h) ==
    /\ h.t = "string"
    /\ StartsWith(h.s, sBearer \o sp)
    /\ Len(h.s) > Len(sBearer) + 1
    /\ \A i \in (Len(sBearer) + 2)..Len(h.s) : h.s[i] \notin WhiteSpace

\* C5 as stated: in required mode every Authorization header that is not
\* exactly "Bearer <token>" is answered 401 without a call to the Identity
\* Provider.
C5_Original ==
    (/\ req.route \in RequiredAuthRoutes
     /\ ~ExactBearer(req.authorization)
     /\ Has(ran, "authenticate"))
    => (phase = "done" /\ res.status = 401 /\ NoIdpCall)

\* the tiers as the claim states them: max requests and window length (ms)
TieredRoutes ==
    {"POST /auth/login", "POST /auth/signup", "POST /auth/forgot-password", "POST /tasks"}
TierName(route) ==
    CASE route = "POST /auth/login" -> "authLimiter"
      [] route = "POST /auth/signup" -> "signupLimiter"
      [] route = "POST /auth/forgot-password" -> "passwordResetLimiter"
      [] route = "POST /tasks" -> "createTaskLimiter"
TierMax(route) ==
    CASE route = "POST /auth/login" -> 5
      [] route = "POST /auth/signup" -> 3
      [] route = "POST /auth/forgot-password" -> 3
      [] route = "POST /tasks" -> 30
TierWindow(route) ==
    CASE route = "POST /auth/login" -> 15 * 60 * 1000
      [] OTHER -> 60 * 60 * 1000

\* C6: on the login (5 per 15 min), signup (3 per hour), forgot-password
\* (3 per hour) and create-task (30 per hour) routes, a request that reaches
\* the limiter when no window is open is admitted and opens a window of
\* length W with the counter at 1; while the window is open the requests up
\* to the N-th are admitted and counted, and every later one is answered 429
\* with a positive retry-after of at most W.
C6_TierBudget ==
    [][(req.route \in TieredRoutes /\ ran' = Append(ran, TierName(req.route)))
       => LET k == <<TierName(req.route), req.ip>>
              N == TierMax(req.route)
              W == TierWindow(req.route)
              open == buckets[k].hits > 0 /\ now < buckets[k].resetTime
              admitted == phase' = "ready" /\ pos' = pos + 1 /\ res' = res
          IN  /\ ~open => /\ admitted
                          /\ buckets'[k] = [hits |-> 1, resetTime |-> now + W]
              /\ (open /\ buckets[k].hits < N)
                    => /\ admitted
                       /\ buckets'[k] = [buckets[k] EXCEPT !.hits = @ + 1]
              /\ (open /\ buckets[k].hits >= N)
                    => /\ phase' = "done"
                       /\ res'.sent = 1
                       /\ res'.status = 429
                       /\ res'.retryAfter > 0
                       /\ res'.retryAfter * 1000 <= W
                       /\ pos' = pos]_vars

\* the 31st task creation of a window, refused just before the window ends
C6_Witness ==
    /\ req.route = "POST /tasks"
    /\ phase = "done"
    /\ res.status = 429
    /\ res.retryAfter = 1
    /\ buckets[<<"createTaskLimiter", "ip1">>] = [hits |-> 31, resetTime |-> 60 * 60 * 1000]
    /\ now = 4 * TickMs

\* the requests of the window, answered or in flight
InWindow == IF phase = "idle" THEN parked ELSE parked (+) SetToBag({Ctx})
PassedLimiter(c) ==
    /\ c.req.route \in TieredRoutes
    /\ Has(c.ran, TierName(c.req.route))
    /\ c.res.status # 429
AdmittedCount(route) ==
    LET S == {c \in BagToSet(InWindow) : c.req.route = route /\ PassedLimiter(c)}
    IN  BagCardinality([c \in S |-> InWindow[c]])

\* C7: however the requests of one caller on one tier interleave inside a
\* window, the number of them admitted by the limiter never exceeds the
\* tier's max.
C7_NeverOverCap ==
    \A route \in TieredRoutes : AdmittedCount(route) <= TierMax(route)

\* two task creations in flight past the limiter, a third one refused, the
\* budget of 30 used up
C7_Witness ==
    /\ req.route = "POST /tasks"
    /\ phase = "awaiting"
    /\ PassedLimiter(Ctx)
    /\ \E c \in BagToSet(parked) : c.phase = "awaiting" /\ PassedLimiter(c)
    /\ \E c \in BagToSet(parked) : c.res.status = 429
    /\ AdmittedCount("POST /tasks") = 30

\* position of a handler in the order rate limit, auth gate, validator,
\* business call
Rank(h) ==
    CASE h \in Limiters -> 1
      [] h = "authenticate" -> 2
      [] h \in Controllers -> 4
      [] h = "errorHandler" -> 5
      [] OTHER -> 3

\* C8 as stated: on every route the handlers run in the order rate limit,
\* auth gate, validator, business call; on POST /tasks the rate limit check
\* runs before the auth gate.
C8_Original ==
    /\ \A i \in 1..Len(ran) : \A j \in 1..Len(ran) :
          i < j => Rank(ran[i]) <= Rank(ran[j])
    /\ (req.route = "POST /tasks" /\ ran # <<>>) => ran[1] = "createTaskLimiter"

\* C9: a request gets at most one response, and once a response is sent no
\* further handler runs and no further remote call is made for it: a handler
\* that responds does not pass control on.
C9_FirstFailureEndsRequest ==
    [][/\ res'.sent <= 1
       /\ (res'.sent > res.sent) => phase' = "done"
       /\ (res.sent >= 1 /\ served' = served)
             => (res' = res /\ ran' = ran /\ calls' = calls /\ phase' = "done")]_vars

C9_Witness ==
    /\ req.route = "PUT /tasks/:id"
    /\ ran = <<"authenticate", "validateTaskId">>
    /\ phase = "done"
    /\ res.sent = 1
    /\ res.status = 400

\* field named by a validation message
FieldOf(msg) ==
    CASE msg \in TitleMessages -> "title"
      [] msg \in {"Priority must be one of 'low', 'medium', or 'high'",
                  "Priority must be one of: low, medium, high"} -> "priority"
      [] msg \in {"Invalid date format for due_date Use iso format YYYY-MM-DD",
                  "Invalid date format for due_date"} -> "due_date"
      [] msg = "status must be any one of pending, in-process, completed" -> "status"
      [] msg \in {"Email is required", "Email must be a string", "Invalid email format"}
            -> "email"
      [] msg \in {"Password is required", "Password must be string",
                  "Password must be a string", "Password must be at least 6 characters",
                  "Password must not excced 72 characters",
                  "Password must not exceed 72 characters"} -> "password"
      [] msg = "Name must be a string" -> "name"
      [] OTHER -> "body"

NamedFields(errors) == {FieldOf(errors[i]) : i \in 1..Len(errors)}

Present(v) == v.t # "undefined"
BadTitle(v) == BlankTitle(v) \/ Len(v.s) > 255
BadEnum(v, values) == Present(v) /\ ~Includes(values, v)
BadDate(v) == Present(v) /\ v.t # "null" /\ ~DateParses(v)
BadPassword(v) == v.t # "string" \/ Len(v.s) < 6 \/ Len(v.s) > 72

\* the fields of a body that break the rules of its operation
Offending(route, b) ==
    CASE route = "POST /tasks" ->
            {f \in {"title"} : BadTitle(Get(b, f))}
            \cup {f \in {"priority"} : BadEnum(Get(b, f), VALID_PRIORITIES)}
            \cup {f \in {"due_date"} : BadDate(Get(b, f))}
      [] route = "PUT /tasks/:id" ->
            {f \in {"title"} : Present(Get(b, f)) /\ BadTitle(Get(b, f))}
            \cup {f \in {"status"} :
                    BadEnum(Get(b, f), <<sPending, sInProgress, sCompleted>>)}
            \cup {f \in {"priority"} : BadEnum(Get(b, f), VALID_PRIORITIES)}
            \cup {f \in {"due_date"} : BadDate(Get(b, f))}
      [] route = "POST /auth/signup" ->
            {f \in {"email"} : ~(IsString(Get(b, f)) /\ emailRegex(Get(b, f).s))}
            \cup {f \in {"password"} : BadPassword(Get(b, f))}
            \cup {f \in {"name"} : Present(Get(b, f)) /\ ~IsString(Get(b, f))}
      [] route = "POST /auth/login" ->
            {f \in {"email", "password"} : ~IsString(Get(b, f)) \/ Get(b, f).s = <<>>}
      [] route = "POST /auth/reset-password" ->
            {f \in {"password"} : BadPassword(Get(b, f))}
      [] OTHER -> {}

BodyValidators ==
    {"validateCreateTask", "validateUpdateTask", "validateSignup", "validateLogin",
     "validateResetPassword"}

\* C10 as stated: the 400 response of a body validator lists every offending
\* field of the body.
C10_Original ==
    (phase = "done" /\ res.status = 400 /\ ran # <<>> /\ Last(ran) \in BodyValidators)
    => Offending(req.route, req.body) \subseteq NamedFields(res.error)

\* the fields of a task that a caller may set
RecognizedFields == {"title", "description", "status", "priority", "due_date"}

\* C11 as stated: a PUT /tasks/{id} request whose body holds none of the
\* recognized fields, the empty body and a body of unknown keys alike, is
\* answered 400 with "at least one field ..." and no update reaches the Data
\* Store.
C11_Original ==
    (/\ req.route = "PUT /tasks/:id"
     /\ Has(ran, "validateUpdateTask")
     /\ DOMAIN req.body \cap RecognizedFields = {})
    => /\ phase = "done"
       /\ res.status = 400
       /\ res.error = <<"at least one field is required for update">>
       /\ NoDsCall

\* the status values as the claim states them
ClaimStatuses == {Str(sPending), Str(sInProgress), Str(sCompleted)}

\* the validator that has just run answered 400
Refused(validator) ==
    /\ phase = "done"
    /\ res.status = 400
    /\ Last(ran) = validator

\* C12 as stated: the status filter of GET /tasks and the status field of
\* PUT /tasks/{id} accept exactly pending, in-progress and completed: each of
\* the three passes validation and every other non-empty string is answered
\* 400.
C12_Original ==
    /\ (/\ req.route = "GET /tasks"
        /\ Has(ran, "validateQueryParams")
        /\ DOMAIN req.query = {"status"}
        /\ Supplied(req.query.status))
       => (req.query.status \in ClaimStatuses <=> ~Refused("validateQueryParams"))
    /\ (/\ req.route = "PUT /tasks/:id"
        /\ Has(ran, "validateUpdateTask")
        /\ DOMAIN req.body = {"status"}
        /\ Supplied(req.body.status))
       => (req.body.status \in ClaimStatuses <=> ~Refused("validateUpdateTask"))

\* the payloads of the inserts and updates sent to the Data Store
WritePayloads ==
    {calls[i].arg : i \in {j \in 1..Len(calls) : calls[j].op \in {"insert", "update"}}}

\* C13 as stated: in every insert or update payload sent to the Data Store a
\* status that is present is an enumerated status (in either spelling of the
\* second value), a priority that is present is low, medium or high, and a
\* title that is present is a string that is not empty after trimming.
C13_Original ==
    \A p \in WritePayloads :
        /\ "status" \in DOMAIN p
              => p.status \in ClaimStatuses \cup {Str(sInProcess)}
        /\ "priority" \in DOMAIN p
              => p.priority \in {Str(sLow), Str(sMedium), Str(sHigh)}
        /\ "title" \in DOMAIN p
              => (IsString(p.title) /\ ~AllIn(p.title.s, WhiteSpace))

NoSuchRecord ==
    \E i \in 1..Len(replies) :
        /\ calls[i].svc = "ds"
        /\ calls[i].op \in {"selectSingle", "update"}
        /\ replies[i] = Reply(NoRowError, Null)

\* C16 as stated: GET, PUT and DELETE /tasks/{id} with a well-formed id that
\* has no record in the Data Store are answered 404.
C16_Original ==
    (req.route \in ByIdRoutes /\ IdFormat(req.id) /\ NoSuchRecord)
    => (phase = "done" /\ res.status = 404)

\* a list request answered 200 from the rows of a selection
ListAnswered ==
    /\ req.route = "GET /tasks"
    /\ phase = "done"
    /\ res.status = 200
    /\ Has(ran, "getAllTasks")
Contains(text, s) ==
    \E i \in 0..(Len(text) - Len(s)) : SubSeq(text, i + 1, i + Len(s)) = s
TextContains(v, s) == IsString(v) /\ Contains(toLower(v.s), toLower(s))
Satisfies(row, q) ==
    /\ Supplied(Get(q, "status")) => row.status = Get(q, "status")
    /\ Supplied(Get(q, "priority")) => row.priority = Get(q, "priority")
    /\ Supplied(Get(q, "search"))
          => \/ TextContains(row.title, Get(q, "search").s)
             \/ TextContains(row.description, Get(q, "search").s)
Matching(content, q) == SelectSeq(content, LAMBDA row : Satisfies(row, q))

\* C17 (as stated): for every valid GET /tasks query and every store
\* content, the data returned holds only tasks that satisfy all supplied
\* filters (status, priority, search), holds at most limit tasks, and count
\* is the number of stored tasks matching the filters.
C17_Original ==
    ListAnswered
    => LET content == StoreContents[Last(replies).store]
           limit == Get(req.query, "limit")
       IN  /\ \A i \in 1..Len(res.data.rows) : Satisfies(res.data.rows[i], req.query)
           /\ Supplied(limit) => ~NumLess(ToNumber(limit.s), Len(res.data.rows))
           /\ res.data.count = Len(Matching(content, req.query))

SortAllowList ==
    {Str(sCreatedAt), Str(<<"u", "p", "d", "a", "t", "e", "d", "_", "a", "t">>),
     Str(<<"d", "u", "e", "_", "d", "a", "t", "e">>), Str(<<"p", "r", "i", "o", "r", "i", "t", "y">>)}

\* C18 (as stated): the sort column that reaches the Data Store is always
\* one of created_at, updated_at, due_date, priority; a GET /tasks request
\* with any other sort_by is answered 400 by the validator and never
\* reaches the store.
C18_Original ==
    req.route = "GET /tasks"
    => /\ \A i \in 1..Len(calls) :
             calls[i].op = "select" => calls[i].arg.order.column \in SortAllowList
       /\ (/\ phase = "done"
           /\ Supplied(Get(req.query, "sort_by"))
           /\ Get(req.query, "sort_by") \notin SortAllowList)
             => (res.status = 400 /\ calls = <<>>)

\* the whole number a query parameter denotes
WholeNumber(v) == ToNumber(v.s).num \div ToNumber(v.s).den
\* the filtered, sorted result of the query the store was sent
FilteredSorted(query, content) ==
    sortRows(SelectSeq(content, LAMBDA row : selected(query, row)),
             columnOf(query.order.column.s), query.order.ascending)

\* C19 (as stated): whenever a valid GET /tasks request supplies an offset
\* (offset=0 included), the rows returned are exactly positions offset ..
\* offset+L-1 of the filtered, sorted result, L being the supplied limit, or
\* 10 when no limit is supplied; the window is never unbounded.
C19_Original ==
    (ListAnswered /\ Supplied(Get(req.query, "offset")))
    => LET offset == WholeNumber(Get(req.query, "offset"))
           L == IF Supplied(Get(req.query, "limit"))
                THEN WholeNumber(Get(req.query, "limit")) ELSE 10
           result == FilteredSorted(calls[1].arg, StoreContents[Last(replies).store])
       IN  res.data.rows = page(result, offset, offset + L - 1)

\* C20 (as stated): for every search string s supplied to GET /tasks, the
\* predicate sent to the Data Store is exactly "title contains s OR
\* description contains s", case-insensitive: no character of s adds,
\* removes or changes a predicate.
C20_Original ==
    \A i \in 1..Len(calls) :
        (calls[i].op = "select" /\ Supplied(Get(req.query, "search")))
        => LET s == Get(req.query, "search").s
               cs == orConditions(calls[i].arg.or.s)
           IN  /\ Len(cs) = 2
               /\ cs[1].column = "title" /\ cs[2].column = "description"
               /\ \A j \in 1..2 :
                     /\ conditionOk(cs[j])
                     /\ \A k \in 1..Len(StoreContents) :
                           \A n \in 1..Len(StoreContents[k]) :
                               holds(cs[j], StoreContents[k][n])
                               <=> TextContains(StoreContents[k][n][cs[j].column], s)

\* messages that come from the Data Store or the Identity Provider, as an
\* error value or as the exception of a rejected call
UpstreamMessages ==
    {DbError.message, NoRowError.message, IdpError.message, Rejected.message,
     "getUser failed"}

\* C21 (as stated): outside development mode no error response of any route
\* contains the message of a Data Store or Identity Provider error, whether
\* the upstream failure was returned as an error value or thrown.
C21_Original ==
    (phase = "done" /\ nodeEnv # "development" /\ res.status >= 400)
    => \A i \in 1..Len(res.error) : res.error[i] \notin UpstreamMessages

MutationControllers == {"createTask", "updateTask", "deleteTask"}
DsCalls == {i \in 1..Len(calls) : calls[i].svc = "ds"}

\* C22 (as stated): every task mutation request (create, update, delete) that
\* reaches the business stage issues exactly one call to the Data Store: no
\* preliminary read, no retry after a failure, no compensating call.
C22_Original ==
    (phase = "done" /\ \E c \in MutationControllers : Has(ran, c))
    => Cardinality(DsCalls) = 1

\* C23: the require-verified gate lets a request continue only when an
\* identity is attached and its verified-at is present; it answers 401 when
\* no identity is attached and 403 when the identity's verified-at is
\* absent, and it never calls the Identity Provider.
C23_RequireVerifiedGate ==
    [][(phase = "ready" /\ Stage = "requireVerifiedEmail")
       => /\ calls' = calls /\ pending' = pending
          /\ IF user = Undefined
             THEN phase' = "done" /\ res'.sent = 1 /\ res'.status = 401
             ELSE IF ~user.email_confirmed_at
             THEN phase' = "done" /\ res'.sent = 1 /\ res'.status = 403
             ELSE phase' = "ready" /\ pos' = pos + 1 /\ res' = res]_vars

C23_Witness ==
    /\ req.route = "authenticate, requireVerifiedEmail"
    /\ ran = <<"authenticate", "requireVerifiedEmail">>
    /\ user = UnverifiedUser
    /\ phase = "done"
    /\ res.status = 403
    /\ Len(calls) = 1

\* C24: the auth gate in optional mode never rejects: for every header shape
\* and every Identity Provider outcome (user, invalid token, error value,
\* exception) it sends no response and passes the request on exactly once,
\* with an identity attached only when the provider returned a user for the
\* presented token.
C24_OptionalNeverRejects ==
    [][(phase \in {"ready", "awaiting"} /\ Stage = "optionalAuth")
       => /\ res' = res /\ err' = err
          /\ \/ phase' = "awaiting" /\ pos' = pos /\ phase = "ready"
             \/ phase' = "ready" /\ pos' = pos + 1
          /\ (user' # user \/ accessToken' # accessToken)
                => /\ phase = "awaiting"
                   /\ ~Last(replies').thrown
                   /\ Last(replies').user \in {VerifiedUser, UnverifiedUser}
                   /\ user' = Last(replies').user
                   /\ accessToken' = bearerToken(req.authorization)]_vars

C24_Witness ==
    /\ req.route = "optionalAuth"
    /\ Len(replies) = 1 /\ replies[1].thrown
    /\ ran = <<"optionalAuth", "getCurrentUser">>
    /\ phase = "done"
    /\ res.status = 200 /\ res.sent = 1
    /\ user = Undefined

FailedReply(r) == r.thrown \/ r.error # Null

\* C25 (as stated): if any of the count queries issued for GET /tasks/stats
\* fails at the Data Store, as an error value or as an exception, the
\* response is a 500 failure; a 200 response carrying zero counts is never
\* produced from a failed query.
C25_Original ==
    (/\ req.route = "GET /tasks/stats"
     /\ phase = "done"
     /\ \E i \in 1..Len(replies) : FailedReply(replies[i]))
    => res.status = 500

\* C26: every request that enters a route's middleware chain eventually
\* receives a response, provided each remote call it makes returns or
\* throws: no path through rate limiter, auth gate, validator, controller or
\* error handler ends without a response.
C26_EveryRequestAnswered ==
    (phase \in {"ready", "awaiting", "error"}) ~> (phase = "done" /\ res.sent = 1)

C26_Witness ==
    /\ phase = "done"
    /\ res.sent = 1
    /\ Last(ran) = "errorHandler"
    /\ Len(replies) > 0 /\ Last(replies).thrown

\* C27 (as stated): for every POST /auth/forgot-password request that passes
\* the rate limit and validation, the status and body of the response are the
\* same whatever the Identity Provider's outcome is for that email (account
\* exists, no account, provider-reported error): the response is the one
\* given when the account exists.
C27_Original ==
    (/\ req.route = "POST /auth/forgot-password"
     /\ phase = "done"
     /\ Has(ran, "forgotPassword")
     /\ Len(replies) = 1 /\ ~replies[1].thrown)
    => /\ res.status = 200
       /\ res.message
             = "If an account exists with this email, a password reset link has been sent."
       /\ res.error = <<>>

Deleted200(c) ==
    c.req.route = "DELETE /tasks/:id" /\ c.phase = "done" /\ c.res.status = 200

\* C28 (as stated): for any two concurrent DELETE /tasks/{id} requests on the
\* same existing task, in every interleaving of their Data Store calls at
\* most one request receives the 200 'deleted' response carrying the task.
C28_Original ==
    /\ \A c \in BagToSet(parked) : Deleted200(c) => CopiesIn(c, parked) = 1
    /\ \A c, d \in InFlight : (Deleted200(c) /\ Deleted200(d)) => c = d

\* the provider operations of logout and resetPassword among the calls of the
\* request
ProviderOperations ==
    {i \in 1..Len(calls) : calls[i].svc = "idp" /\ calls[i].op \in {"signOut", "updateUser"}}

\* C29 (as stated): the identity acted on by POST /auth/reset-password and
\* POST /auth/logout is the identity the auth gate verified for that same
\* request: in every interleaving with other callers' requests, the Identity
\* Provider operation is performed with the request's own access token and
\* never with a session left on the shared provider client by a different
\* request.
C29_Original == \A i \in ProviderOperations : calls[i].arg.session = accessToken

\* the routes of the login, signup and forgot-password tiers
AuthTierRoutes == {"POST /auth/login", "POST /auth/signup", "POST /auth/forgot-password"}

====
